---- MODULE Spec2Model ----
(***************************************************************************)
(* A model of the job filter application (job_filter_app.py): the          *)
(* similarity scorer, the per-record scoring, and the state machine of the *)
(* JobFilterApp object (load, filter, sort, status filter, mark as         *)
(* applied, export, clear).                                                *)
(*                                                                         *)
(* Text is modelled as a sequence of one-character strings.  Python dicts  *)
(* are functions whose DOMAIN is the set of keys present.  Python floats   *)
(* are modelled as exact fractions <<numerator, denominator>> in lowest    *)
(* terms.  Python objects live in a heap (address -> dict), so that an     *)
(* alias and a copy are different things.                                  *)
(***************************************************************************)
EXTENDS Integers, Sequences, FiniteSets, TLC

(***************************************************************************)
(* Characters and strings                                                  *)
(***************************************************************************)

\* The characters of the model, in code point order (str comparison order).
Chars == <<" ", "-", "1", "2", "3", "A", "D", "E", "a", "b", "d", "e", "g", "n", "t", "v">>

Ord(c) == CHOOSE i \in 1..Len(Chars) : Chars[i] = c

\* str.lower() on one character.
LowerChar(c) ==
    CASE c = "A" -> "a"
      [] c = "B" -> "b"
      [] c = "C" -> "c"
      [] c = "D" -> "d"
      [] c = "E" -> "e"
      [] c = "F" -> "f"
      [] c = "G" -> "g"
      [] c = "H" -> "h"
      [] c = "I" -> "i"
      [] c = "J" -> "j"
      [] c = "K" -> "k"
      [] c = "L" -> "l"
      [] c = "M" -> "m"
      [] c = "N" -> "n"
      [] c = "O" -> "o"
      [] c = "P" -> "p"
      [] c = "Q" -> "q"
      [] c = "R" -> "r"
      [] c = "S" -> "s"
      [] c = "T" -> "t"
      [] c = "U" -> "u"
      [] c = "V" -> "v"
      [] c = "W" -> "w"
      [] c = "X" -> "x"
      [] c = "Y" -> "y"
      [] c = "Z" -> "z"
      [] OTHER -> c

\* str.lower()
Lower(s) == [i \in 1..Len(s) |-> LowerChar(s[i])]

\* The class \w of the regular expressions: letters, digits and underscore.
IsWordChar(c) ==
    c \notin {" ", "-", "\n", ",", ".", ":", "+", "#", "/", "[", "]", "\\", "?"}

\* str.isspace() on one character.
IsSpace(c) == c \in {" ", "\n"}

\* Python's "x in y" on strings.
Contains(y, x) ==
    \E i \in 0..(Len(y) - Len(x)) : SubSeq(y, i + 1, i + Len(x)) = x

\* Python's "x < y" on strings: lexicographic by code point.
StrLess(x, y) ==
    \E i \in 1..(Len(y)) :
        /\ i <= Len(x) + 1
        /\ \A j \in 1..(i - 1) : x[j] = y[j]
        /\ \/ i = Len(x) + 1
           \/ Ord(x[i]) < Ord(y[i])

\* str.strip(): leading and trailing whitespace removed.
RECURSIVE Strip(_)
Strip(s) ==
    IF s = <<>> THEN s
    ELSE IF IsSpace(Head(s)) THEN Strip(Tail(s))
    ELSE IF IsSpace(s[Len(s)]) THEN Strip(SubSeq(s, 1, Len(s) - 1))
    ELSE s

\* re.findall(r'\w+', s): the maximal runs of word characters, in order.
RECURSIVE FindAllFrom(_, _, _)
FindAllFrom(s, i, cur) ==
    IF i > Len(s) THEN (IF cur = <<>> THEN <<>> ELSE <<cur>>)
    ELSE IF IsWordChar(s[i]) THEN FindAllFrom(s, i + 1, Append(cur, s[i]))
    ELSE (IF cur = <<>> THEN <<>> ELSE <<cur>>) \o FindAllFrom(s, i + 1, <<>>)

FindAll(s) == FindAllFrom(s, 1, <<>>)

Range(f) == {f[i] : i \in DOMAIN f}

\* The element of a set of one element: a value computed once and named.
The(singleton) == CHOOSE x \in singleton : TRUE

\* The built-in min() of two numbers.
Min2(a, b) == IF a <= b THEN a ELSE b

\* The built-in max() of two numbers.
Max2(a, b) == IF a >= b THEN a ELSE b

(***************************************************************************)
(* Floats as exact fractions                                               *)
(***************************************************************************)

RECURSIVE GCD(_, _)
GCD(a, b) == IF b = 0 THEN a ELSE GCD(b, a % b)

\* The fraction n/d (d > 0, n >= 0) in lowest terms.
Frac(n, d) == IF n = 0 THEN <<0, 1>> ELSE <<n \div GCD(n, d), d \div GCD(n, d)>>

FMul(x, y) == Frac(x[1] * y[1], x[2] * y[2])

FAdd(x, y) == Frac(x[1] * y[2] + y[1] * x[2], x[2] * y[2])

FLeq(x, y) == x[1] * y[2] <= y[1] * x[2]

FLess(x, y) == x[1] * y[2] < y[1] * x[2]

FZero == Frac(0, 1)

(***************************************************************************)
(* difflib.SequenceMatcher(None, a, b).ratio()                             *)
(***************************************************************************)

\* Length of the common run of a from i and b from j (0-based), inside
\* a[..ahi) and b[..bhi).
RECURSIVE RunLen(_, _, _, _, _, _)
RunLen(a, b, i, j, ahi, bhi) ==
    IF i < ahi /\ j < bhi /\ a[i + 1] = b[j + 1]
    THEN 1 + RunLen(a, b, i + 1, j + 1, ahi, bhi)
    ELSE 0

\* The common runs of a[alo:ahi] and b[blo:bhi]: <<i, j, length>> for every
\* pair of start positions.
Runs(a, b, alo, ahi, blo, bhi) ==
    {<<p[1], p[2], RunLen(a, b, p[1], p[2], ahi, bhi)>> :
         p \in (alo..(ahi - 1)) \X (blo..(bhi - 1))}

\* Of the longest runs the one starting earliest in a, then earliest in b;
\* <<alo, blo, 0>> if there is no common element.
LongestRun(runs, alo, blo) ==
    IF \A r \in runs : r[3] = 0 THEN <<alo, blo, 0>>
    ELSE CHOOSE p \in runs :
             \A q \in runs :
                 \/ q[3] < p[3]
                 \/ /\ q[3] = p[3]
                    /\ \/ p[1] < q[1]
                       \/ p[1] = q[1] /\ p[2] <= q[2]

\* find_longest_match: the longest matching block in a[alo:ahi], b[blo:bhi].
FindLongestMatch(a, b, alo, ahi, blo, bhi) ==
    LongestRun(Runs(a, b, alo, ahi, blo, bhi), alo, blo)

\* get_matching_blocks: total size of the blocks found by splitting around
\* the longest match m and recursing to its left and to its right.
RECURSIVE MatchingSize(_, _, _, _, _, _)
SplitAround(a, b, alo, ahi, blo, bhi, m) ==
    IF m[3] = 0 THEN 0
    ELSE m[3]
         + MatchingSize(a, b, alo, m[1], blo, m[2])
         + MatchingSize(a, b, m[1] + m[3], ahi, m[2] + m[3], bhi)

MatchingSize(a, b, alo, ahi, blo, bhi) ==
    IF alo >= ahi \/ blo >= bhi THEN 0
    ELSE SplitAround(a, b, alo, ahi, blo, bhi,
                     FindLongestMatch(a, b, alo, ahi, blo, bhi))

\* The matches counted twice, not divided by the lengths.
SequenceMatches(a, b) == Frac(2 * MatchingSize(a, b, 0, Len(a), 0, Len(b)), 1)

\* ratio(): 2.0 * matches / (len(a) + len(b)), 1.0 for two empty strings.
SequenceRatio(a, b) ==
    IF Len(a) + Len(b) = 0 THEN Frac(1, 1)
    ELSE Frac(2 * MatchingSize(a, b, 0, Len(a), 0, Len(b)), Len(a) + Len(b))

(***************************************************************************)
(* JobFilterApp.calculate_similarity                                       *)
(***************************************************************************)

\* A substring tier that scores one half.
LowSubstringScore == Frac(1, 2)

\* The score of the substring tier, 0.8.
SubstringScore == Frac(4, 5)

\* A test that takes no string for empty.
NeverFalsy(text) == FALSE

\* "not text": whether a str is the empty string.
Falsy(text) == text = <<>>

calculate_similarity(text1, text2) ==
    IF Falsy(text1) \/ Falsy(text2) THEN FZero
    ELSE LET text1_lower == Lower(text1)
             text2_lower == Lower(text2)
             words1 == Range(FindAll(text1_lower))
             words2 == Range(FindAll(text2_lower))
             common_words == words1 \cap words2
         IN  IF Contains(text1_lower, text2_lower) \/ Contains(text2_lower, text1_lower)
             THEN SubstringScore
             ELSE IF common_words # {}
             THEN Frac(Cardinality(common_words),
                       Max2(Cardinality(words1), Cardinality(words2)))
             ELSE SequenceRatio(text1_lower, text2_lower)

(***************************************************************************)
(* JobFilterApp.matches_job_function                                       *)
(***************************************************************************)

\* A get that reads an absent key as 'N/A', whatever the default.
GetNA(d, key, default) == IF key \in DOMAIN d THEN d[key] ELSE <<"N", "/", "A">>

\* dict.get(key, default)
Get(d, key, default) == IF key \in DOMAIN d THEN d[key] ELSE default

\* A channel that weighs 3.0.
HeavyWeight == Frac(3, 1)

\* A title that weighs 1.0.
UnitWeight == Frac(1, 1)

\* The weights of the five channels: 2.0, 0.5, 1.5, 1.0, 1.2.
TitleWeight == Frac(2, 1)

DescWeight == Frac(1, 2)

FuncWeight == Frac(3, 2)

IndustriesWeight == Frac(1, 1)

KeywordWeight == Frac(6, 5)

\* The loop over the keywords: how many of them, longer than 3 characters,
\* occur in full_text.
RECURSIVE KeywordMatches(_, _)
KeywordMatches(keywords, full_text) ==
    IF keywords = <<>> THEN 0
    ELSE (IF Len(Head(keywords)) > 3 /\ Contains(full_text, Head(keywords)) THEN 1 ELSE 0)
         + KeywordMatches(Tail(keywords), full_text)

keyword_score(job, job_function) ==
    LET keywords == FindAll(Lower(job_function))
        full_text == Lower(Get(job, "title", <<>>) \o <<" ">>
                           \o Get(job, "descriptionText", <<>>))
    IN  IF keywords = <<>> THEN FZero
        ELSE Frac(KeywordMatches(keywords, full_text), Max2(Len(keywords), 1))

\* The five arguments of max(), in the order of the call.
WeightedScores(job, job_function) ==
    << FMul(calculate_similarity(Get(job, "title", <<>>), job_function), TitleWeight),
       FMul(calculate_similarity(Get(job, "descriptionText", <<>>), job_function), DescWeight),
       FMul(calculate_similarity(Get(job, "jobFunction", <<>>), job_function), FuncWeight),
       FMul(calculate_similarity(Get(job, "industries", <<>>), job_function), IndustriesWeight),
       FMul(keyword_score(job, job_function), KeywordWeight) >>

SumOf(xs) == FAdd(FAdd(FAdd(FAdd(xs[1], xs[2]), xs[3]), xs[4]), xs[5])

\* The built-in max(): the first of the largest arguments.
RECURSIVE MaxFrom(_, _, _)
MaxFrom(xs, i, best) ==
    IF i > Len(xs) THEN best
    ELSE MaxFrom(xs, i + 1, IF FLess(best, xs[i]) THEN xs[i] ELSE best)

MaxOf(xs) == MaxFrom(xs, 2, xs[1])

max_similarity(job, job_function) == MaxOf(WeightedScores(job, job_function))

(***************************************************************************)
(* Data: the job files, the queries and the thresholds of the model        *)
(***************************************************************************)

\* How many records of the first jobs file are loaded.
NumJobs == 2

JobsFileA ==
    << [id |-> <<"1">>, title |-> <<"e", "n", "g", " ", "v", "e", "t">>,
        companyName |-> <<"b">>],
       [title |-> <<"D", "a", "t", "a", " ", "v", "e", "t">>,
        companyName |-> <<"b">>, location |-> <<"A">>],
       [title |-> <<"d", "a", "t", "a", "-", "e", "n", "g">>,
        companyName |-> <<"a">>, descriptionText |-> <<"a", " ", "d", "a", "t", "a">>,
        jobFunction |-> <<"e", "n", "g">>] >>

\* The contents json.load can return for the jobs file of the model.
JobsFiles == { SubSeq(JobsFileA, 1, NumJobs) }

\* What the user can have typed into the job function entry.
Queries ==
    { <<"D", "a", "t", "a">>,
      <<" ", "d", "a", "t", "a", " ", "e", "n", "g">>,
      <<" ">> }

\* A query that matches no record of the jobs file.
NoMatchQuery == <<"x">>

\* The queries of the runs that follow the query history: one that matches,
\* one that matches nothing, a blank one.
HistoryQueries == { <<"D", "a", "t", "a">>, NoMatchQuery, <<" ">> }

\* Positions of the threshold slider (0.0 to 1.0); 0.3 is its initial value.
DefaultThreshold == Frac(3, 10)

Thresholds == { DefaultThreshold, Frac(1, 1) }

\* The columns of the table, each with a sortable heading.
Columns ==
    {"applied", "similarity", "title", "company", "location",
     "employment_type", "job_function", "seniority"}

\* filter_display: the keys of the status filter and what the combobox shows.
filter_display ==
    [all |-> "All Jobs", applied |-> "Applied Jobs Only",
     not_applied |-> "Not Applied Jobs Only"]

\* What the user can enter in the "Mark as Applied" dialog.
AppliedDates == {"2026-01-05"}

\* max_similarity for the records and queries above, evaluated once.
ScoreCache ==
    [job_function \in {Strip(q) : q \in Queries \cup HistoryQueries} |->
        [job \in Range(JobsFileA) |-> max_similarity(job, job_function)]]

\* matches_job_function returns <<max_similarity >= threshold, max_similarity>>.
Verdict(score, threshold) == <<FLeq(threshold, score), score>>

matches_job_function(job, job_function, threshold) ==
    Verdict(IF job_function \in DOMAIN ScoreCache
               /\ job \in DOMAIN ScoreCache[job_function]
            THEN ScoreCache[job_function][job]
            ELSE max_similarity(job, job_function),
            threshold)

(***************************************************************************)
(* Python objects: dicts in a heap                                         *)
(***************************************************************************)

\* d[key] = value
SetItem(d, key, value) ==
    [k \in (DOMAIN d) \cup {key} |-> IF k = key THEN value ELSE d[k]]

\* d.pop(key, None)
Pop(d, key) == [k \in (DOMAIN d) \ {key} |-> d[k]]

HeapPut(h, a, d) == [x \in (DOMAIN h) \cup {a} |-> IF x = a THEN d ELSE h[x]]

\* The objects still referenced from the addresses in keep.
Restrict(h, keep) == [x \in (DOMAIN h) \cap keep |-> h[x]]

\* The address of a newly created object: the lowest one not in use.
FreshAddr(used) ==
    CHOOSE a \in 1..(Cardinality(used) + 1) :
        a \notin used /\ \A b \in 1..(a - 1) : b \in used

\* json.load: one new dict per record of the file, in file order.
RECURSIVE LoadObjects(_, _, _, _)
LoadObjects(file, i, h, out) ==
    IF i > Len(file) THEN [heap |-> h, list |-> out]
    ELSE LET a == FreshAddr(DOMAIN h)
         IN  LoadObjects(file, i + 1, HeapPut(h, a, file[i]), Append(out, a))

\* The dicts a list of references refers to.
Deref(h, list) == [i \in 1..Len(list) |-> h[list[i]]]

(***************************************************************************)
(* State                                                                   *)
(***************************************************************************)

VARIABLES
    heap,                   \* the dicts of the program: address -> dict
    jobs_data,              \* self.jobs_data: list of references
    filtered_jobs,          \* self.filtered_jobs: list of references
    job_functions_history,  \* self.job_functions_history
    applications_data,      \* self.applications_data: job id -> application info
    sort_column,            \* self.sort_column
    sort_reverse,           \* self.sort_reverse
    application_filter,     \* self.application_filter
    tree,                   \* the rows of the table, top to bottom
    export_data,            \* what the last step wrote to the export file, <<>> if nothing
    loaded,                 \* history: the records of jobs_data as json.load returned them
    last,                   \* history: the handler that ran last, with its inputs
    call                    \* the call of a pure function under check, <<>> if none

vars ==
    <<heap, jobs_data, filtered_jobs, job_functions_history, applications_data,
      sort_column, sort_reverse, application_filter, tree, export_data, loaded, last,
      call>>

(***************************************************************************)
(* list.sort(key=..., reverse=...)                                         *)
(***************************************************************************)

\* k1 < k2 for two sort keys of the column sort_key: the score is a float,
\* the applied indicator an int, every other column a str.
KeyLess(k1, k2, sort_key) ==
    IF sort_key = "_similarity_score" THEN FLess(k1, k2)
    ELSE IF sort_key = "_applied_status" THEN k1 < k2
    ELSE StrLess(k1, k2)

\* A descending sort done by sorting ascending and reversing the list, which
\* reverses the runs of equal keys too.
BeforeUnstable(k1, k2, sort_key, reverse) ==
    IF reverse THEN ~KeyLess(k1, k2, sort_key) ELSE KeyLess(k1, k2, sort_key)

\* Whether the element with key k1 has to come before the one with key k2.
Before(k1, k2, sort_key, reverse) ==
    IF reverse THEN KeyLess(k2, k1, sort_key) ELSE KeyLess(k1, k2, sort_key)

\* Insert x into the sorted list out, behind every element it does not have
\* to come before.
RECURSIVE InsertSorted(_, _, _, _, _, _)
InsertSorted(out, x, h, sort_key, default, reverse) ==
    IF out = <<>> THEN <<x>>
    ELSE LET tail == out[Len(out)]
         IN  IF Before(Get(h[x], sort_key, default), Get(h[tail], sort_key, default),
                       sort_key, reverse)
             THEN Append(InsertSorted(SubSeq(out, 1, Len(out) - 1), x, h,
                                      sort_key, default, reverse),
                         tail)
             ELSE Append(out, x)

RECURSIVE SortFrom(_, _, _, _, _, _, _)
SortFrom(list, i, out, h, sort_key, default, reverse) ==
    IF i > Len(list) THEN out
    ELSE SortFrom(list, i + 1, InsertSorted(out, list[i], h, sort_key, default, reverse),
                  h, sort_key, default, reverse)

\* list.sort(key=lambda x: x.get(sort_key, default), reverse=reverse): stable,
\* also when reverse is set.
ListSort(list, h, sort_key, default, reverse) ==
    SortFrom(list, 1, <<>>, h, sort_key, default, reverse)

(***************************************************************************)
(* JobFilterApp.is_applied, display_results                                *)
(***************************************************************************)

is_applied(apps, job_id) == job_id \in DOMAIN apps

\* str(idx) for a row index, and int(tag) back.
Digits == <<"0", "1", "2", "3", "4", "5", "6", "7", "8", "9">>

RECURSIVE IntToStr(_)
IntToStr(n) ==
    IF n < 10 THEN <<Digits[n + 1]>>
    ELSE Append(IntToStr(n \div 10), Digits[(n % 10) + 1])

RECURSIVE StrToInt(_)
StrToInt(s) ==
    LET d == (CHOOSE i \in 1..10 : Digits[i] = s[Len(s)]) - 1
    IN  IF Len(s) = 1 THEN d ELSE 10 * StrToInt(SubSeq(s, 1, Len(s) - 1)) + d

\* f"{similarity:.1%}": the score in tenths of a percent, rounded half to even.
PerMille(x) ==
    LET n == 1000 * x[1]
        q == n \div x[2]
        r == n % x[2]
    IN  IF 2 * r > x[2] \/ (2 * r = x[2] /\ q % 2 = 1) THEN q + 1 ELSE q

NA == <<"N", "/", "A">>

\* The row of one job: its values and its tags.
Row(idx, job, apps) ==
    LET applied == is_applied(apps, Get(job, "id", <<>>))
        applied_date == IF applied THEN Get(apps[Get(job, "id", <<>>)], "applied_date", "")
                        ELSE ""
    IN  [ values |-> << IF ~applied THEN "No"
                        ELSE IF applied_date # "" THEN applied_date ELSE "Yes",
                        PerMille(Get(job, "_similarity_score", FZero)),
                        Get(job, "title", NA),
                        Get(job, "companyName", NA),
                        Get(job, "location", NA),
                        Get(job, "employmentType", NA),
                        Get(job, "jobFunction", NA),
                        Get(job, "seniorityLevel", NA) >>,
          tags |-> IF applied THEN <<IntToStr(idx), "applied">> ELSE <<IntToStr(idx)>> ]

\* The status filter lets every job through.
ShownAll(af, applied) == TRUE

\* Whether the status filter lets a job with this applied status through.
Shown(af, applied) ==
    ~ \/ (af = "applied" /\ ~applied)
      \/ (af = "not_applied" /\ applied)

\* The rows display_results puts into the emptied table.
RECURSIVE RowsFrom(_, _, _, _, _)
\* The rows numbered by their place in the table, not by the place of the
\* job in the result list.
RECURSIVE RowsNumberedAsShown(_, _, _, _, _)
RowsNumberedAsShown(fj, i, h, apps, af) ==
    IF i > Len(fj) THEN <<>>
    ELSE LET job == h[fj[i]]
             before == {k \in 1..(i - 1) :
                           Shown(af, is_applied(apps, Get(h[fj[k]], "id", <<>>)))}
         IN  (IF Shown(af, is_applied(apps, Get(job, "id", <<>>)))
              THEN <<Row(Cardinality(before), job, apps)>> ELSE <<>>)
             \o RowsNumberedAsShown(fj, i + 1, h, apps, af)

RowsFrom(fj, i, h, apps, af) ==
    IF i > Len(fj) THEN <<>>
    ELSE LET job == h[fj[i]]
         IN  (IF Shown(af, is_applied(apps, Get(job, "id", <<>>)))
              THEN <<Row(i - 1, job, apps)>> ELSE <<>>)
             \o RowsFrom(fj, i + 1, h, apps, af)

display_results(fj, h, apps, af) == RowsFrom(fj, 1, h, apps, af)

(***************************************************************************)
(* Initial state: JobFilterApp.__init__ with no config and no              *)
(* applications file present                                               *)
(***************************************************************************)

Init ==
    /\ heap = <<>>
    /\ jobs_data = <<>>
    /\ filtered_jobs = <<>>
    /\ job_functions_history = <<>>
    /\ applications_data = <<>>
    /\ sort_column = "_similarity_score"
    /\ sort_reverse = TRUE
    /\ application_filter = "all"
    /\ tree = <<>>
    /\ export_data = <<>>
    /\ loaded = <<>>
    /\ last = <<"init">>
    /\ call = <<>>

\* The handlers of the application run only in the application's runs.
AppRunning == call = <<>>

(***************************************************************************)
(* JobFilterApp.load_jobs_file                                             *)
(***************************************************************************)

load_jobs_file(file, readable) ==
    /\ AppRunning
    /\ LET r == IF readable
                THEN LoadObjects(file, 1, Restrict(heap, Range(filtered_jobs)), <<>>)
                ELSE [heap |-> Restrict(heap, Range(filtered_jobs)), list |-> <<>>]
       IN  /\ heap' = r.heap
           /\ jobs_data' = r.list
    /\ loaded' = IF readable THEN file ELSE <<>>
    /\ export_data' = <<>>
    /\ last' = <<"other">>
    /\ UNCHANGED <<filtered_jobs, job_functions_history, applications_data, sort_column,
                   sort_reverse, application_filter, tree, call>>

(***************************************************************************)
(* JobFilterApp.filter_jobs                                                *)
(***************************************************************************)

\* job_copy = job: the same object under a second name.
AliasAddr(src, fresh) == src

\* job_copy = job.copy(): a new object, at the fresh address.
CopyAddr(src, fresh) == fresh

\* The record appended to the results: the copy with one more field, the score.
ScoredCopy(job, similarity) == SetItem(job, "_similarity_score", similarity)

\* Every job is kept, whatever matches_job_function says.
KeepAll(matches) == TRUE

\* "if matches:" the test that keeps a job.
Keep(matches) == matches

\* The loop over jobs_data: each matching job is copied, the copy gets the
\* score and is appended to the results.
RECURSIVE FilterLoop(_, _, _, _, _, _)
FilterLoop(jd, i, h, out, job_function, threshold) ==
    IF i > Len(jd) THEN [heap |-> h, list |-> out]
    ELSE LET m == matches_job_function(h[jd[i]], job_function, threshold)
             job_copy == CopyAddr(jd[i], FreshAddr(DOMAIN h))
         IN  IF Keep(m[1])
             THEN FilterLoop(jd, i + 1, HeapPut(h, job_copy, ScoredCopy(h[jd[i]], m[2])),
                             Append(out, job_copy), job_function, threshold)
             ELSE FilterLoop(jd, i + 1, h, out, job_function, threshold)

\* reverse=self.sort_reverse: the direction the table was last sorted in.
FilterSortFollowsState(reverse) == reverse

\* The direction of the sort that ends filter_jobs, reverse=True, whatever
\* self.sort_reverse is.
FilterSortReverse(reverse) == TRUE

\* The results of a filter: the heap and the sorted list of references.
FilterResult(h, jd, reverse, job_function, threshold) ==
    LET r == FilterLoop(jd, 1, Restrict(h, Range(jd)), <<>>, job_function, threshold)
    IN  [heap |-> r.heap,
         list |-> ListSort(r.list, r.heap, "_similarity_score", FZero,
                           FilterSortReverse(reverse))]

\* The query is appended to the history whether or not it is in it.
AlwaysAppend(history, job_function) == Append(history, job_function)

\* if job_function not in self.job_functions_history: append it.
HistoryAfter(history, job_function) ==
    IF job_function \in Range(history) THEN history
    ELSE Append(history, job_function)

\* The user has typed query into the entry and set the slider to threshold,
\* and clicks "Filter Jobs".
filter_jobs(query, threshold) ==
    /\ AppRunning
    /\ export_data' = <<>>
    /\ UNCHANGED <<jobs_data, applications_data, sort_column, sort_reverse,
                   application_filter, loaded, call>>
    /\ LET job_function == Strip(query)
       IN  IF jobs_data = <<>> \/ job_function = <<>>
           THEN /\ last' = <<"other">>
                /\ UNCHANGED <<heap, filtered_jobs, job_functions_history, tree>>
           ELSE LET r == FilterResult(heap, jobs_data, sort_reverse, job_function,
                                      threshold)
                IN  /\ job_functions_history' =
                           HistoryAfter(job_functions_history, job_function)
                    /\ heap' = r.heap
                    /\ filtered_jobs' = r.list
                    /\ tree' = display_results(r.list, r.heap, applications_data,
                                               application_filter)
                    /\ last' = <<"filter_jobs", job_function, threshold>>

(***************************************************************************)
(* JobFilterApp.sort_by_column                                             *)
(***************************************************************************)

\* column_map.get(col, col)
column_map(col) ==
    CASE col = "applied" -> "_applied_status"
      [] col = "similarity" -> "_similarity_score"
      [] col = "title" -> "title"
      [] col = "company" -> "companyName"
      [] col = "location" -> "location"
      [] col = "employment_type" -> "employmentType"
      [] col = "job_function" -> "jobFunction"
      [] col = "seniority" -> "seniorityLevel"
      [] OTHER -> col

\* for job in self.filtered_jobs: job['_applied_status'] = 1 if applied else 0
RECURSIVE AddAppliedStatus(_, _, _, _)
AddAppliedStatus(fj, i, h, apps) ==
    IF i > Len(fj) THEN h
    ELSE AddAppliedStatus(fj, i + 1,
             HeapPut(h, fj[i],
                     SetItem(h[fj[i]], "_applied_status",
                             IF is_applied(apps, Get(h[fj[i]], "id", <<>>)) THEN 1 ELSE 0)),
             apps)

\* Every column starts descending.
AlwaysDescending(col) == TRUE

\* The direction a newly selected column starts with: descending (reverse)
\* for the score only.
InitialReverse(col) == col = "similarity"

\* The initial direction whatever the column.
NeverToggle(column, reverse, sort_key, col) == InitialReverse(col)

\* The direction of the sort: toggled on the active column, the initial one
\* of the column otherwise.
NextReverse(column, reverse, sort_key, col) ==
    IF column = sort_key THEN ~reverse ELSE InitialReverse(col)

sort_by_column(col) ==
    /\ AppRunning
    /\ export_data' = <<>>
    /\ UNCHANGED <<jobs_data, job_functions_history, applications_data,
                   application_filter, loaded, call>>
    /\ IF filtered_jobs = <<>>
       THEN /\ last' = <<"other">>
            /\ UNCHANGED <<heap, filtered_jobs, sort_column, sort_reverse, tree>>
       ELSE LET h == IF col = "applied"
                     THEN AddAppliedStatus(filtered_jobs, 1, heap, applications_data)
                     ELSE heap
                sort_key == column_map(col)
                reverse == NextReverse(sort_column, sort_reverse, sort_key, col)
                sorted == ListSort(filtered_jobs, h, sort_key, <<>>, reverse)
            IN  /\ heap' = h
                /\ filtered_jobs' = sorted
                /\ sort_column' = sort_key
                /\ sort_reverse' = reverse
                /\ tree' = display_results(sorted, h, applications_data, application_filter)
                /\ last' = <<"sort_by_column", col>>

(***************************************************************************)
(* JobFilterApp.on_filter_changed                                          *)
(***************************************************************************)

\* reverse_map.get(display_value, "all")
reverse_map(display_value) ==
    IF \E k \in DOMAIN filter_display : filter_display[k] = display_value
    THEN CHOOSE k \in DOMAIN filter_display : filter_display[k] = display_value
    ELSE "all"

on_filter_changed(display_value) ==
    /\ AppRunning
    /\ application_filter' = reverse_map(display_value)
    /\ tree' = display_results(filtered_jobs, heap, applications_data,
                               reverse_map(display_value))
    /\ export_data' = <<>>
    /\ last' = <<"other">>
    /\ UNCHANGED <<heap, jobs_data, filtered_jobs, job_functions_history,
                   applications_data, sort_column, sort_reverse, loaded, call>>

(***************************************************************************)
(* JobFilterApp.mark_as_applied and the dialog's save_application          *)
(***************************************************************************)

\* The job a row of the table stands for: filtered_jobs[int(tags[0])].
RowJob(row) == filtered_jobs[StrToInt(row.tags[1]) + 1]

\* The entry save_application stores for a job.
ApplicationInfo(job, applied_date) ==
    [job_title |-> Get(job, "title", <<>>),
     company |-> Get(job, "companyName", <<>>),
     applied_date |-> applied_date,
     status |-> "Applied",
     job_link |-> Get(job, "link", <<>>)]

\* The user clicks "Mark as Applied" with row selected (0: no row selected).
\* response is the answer to "already applied, update the information?";
\* the dialog holds the grab until it is closed, with "Save" (save) or with
\* "Cancel", so opening and closing it is one step of the application.
mark_as_applied(selected, response, save, applied_date) ==
    /\ AppRunning
    /\ selected \in 0..Len(tree)
    /\ export_data' = <<>>
    /\ last' = <<"other">>
    /\ UNCHANGED <<heap, jobs_data, filtered_jobs, job_functions_history, sort_column,
                   sort_reverse, application_filter, loaded, call>>
    /\ IF selected = 0
       THEN UNCHANGED <<applications_data, tree>>
       ELSE LET job == heap[RowJob(tree[selected])]
                job_id == Get(job, "id", <<>>)
                apps == SetItem(applications_data, job_id,
                                ApplicationInfo(job, applied_date))
            IN  IF \/ job_id = <<>>
                   \/ is_applied(applications_data, job_id) /\ ~response
                   \/ ~save
                THEN UNCHANGED <<applications_data, tree>>
                ELSE /\ applications_data' = apps
                     /\ tree' = display_results(filtered_jobs, heap, apps,
                                                application_filter)

(***************************************************************************)
(* JobFilterApp.export_results, clear_results                              *)
(***************************************************************************)

\* The record written for one job: a copy without the score.
ExportRecord(job) == Pop(job, "_similarity_score")

\* chosen: whether the user picked a file name in the save dialog.
export_results(chosen) ==
    /\ AppRunning
    /\ export_data' = IF filtered_jobs = <<>> \/ ~chosen THEN <<>>
                      ELSE [i \in 1..Len(filtered_jobs) |->
                                ExportRecord(heap[filtered_jobs[i]])]
    /\ last' = <<"other">>
    /\ UNCHANGED <<heap, jobs_data, filtered_jobs, job_functions_history,
                   applications_data, sort_column, sort_reverse, application_filter,
                   tree, loaded, call>>

clear_results ==
    /\ AppRunning
    /\ tree' = <<>>
    /\ filtered_jobs' = <<>>
    /\ heap' = Restrict(heap, Range(jobs_data))
    /\ export_data' = <<>>
    /\ last' = <<"other">>
    /\ UNCHANGED <<jobs_data, job_functions_history, applications_data, sort_column,
                   sort_reverse, application_filter, loaded, call>>

(***************************************************************************)
(* The application                                                         *)
(***************************************************************************)

Next ==
    \/ \E file \in JobsFiles, readable \in BOOLEAN : load_jobs_file(file, readable)
    \/ \E query \in Queries, threshold \in Thresholds : filter_jobs(query, threshold)
    \/ \E col \in Columns : sort_by_column(col)
    \/ \E v \in Range(filter_display) : on_filter_changed(v)
    \/ \E selected \in 0..Len(tree), response \in BOOLEAN, save \in BOOLEAN,
          d \in AppliedDates : mark_as_applied(selected, response, save, d)
    \/ \E chosen \in BOOLEAN : export_results(chosen)
    \/ clear_results

Spec == Init /\ [][Next]_vars

\* The application with the queries of HistoryQueries typed into the entry.
NextHistory ==
    \/ \E file \in JobsFiles, readable \in BOOLEAN : load_jobs_file(file, readable)
    \/ \E query \in HistoryQueries, threshold \in Thresholds :
          filter_jobs(query, threshold)
    \/ \E col \in Columns : sort_by_column(col)
    \/ \E v \in Range(filter_display) : on_filter_changed(v)
    \/ \E selected \in 0..Len(tree), response \in BOOLEAN, save \in BOOLEAN,
          d \in AppliedDates : mark_as_applied(selected, response, save, d)
    \/ \E chosen \in BOOLEAN : export_results(chosen)
    \/ clear_results

SpecHistory == Init /\ [][NextHistory]_vars

(***************************************************************************)
(* matches_job_function on its own: one call on a record and a query       *)
(* drawn from bounded sets                                                 *)
(***************************************************************************)

\* The longest query and the longest title of a call.
MaxQueryLen == 4

MaxTitleLen == 2

TextAlphabet == {"a", "A", " "}

\* The texts over TextAlphabet of length n, and of length at most n.
RECURSIVE TextsOfLen(_)
TextsOfLen(n) ==
    IF n = 0 THEN {<<>>}
    ELSE {Append(t, c) : t \in TextsOfLen(n - 1), c \in TextAlphabet}

TextsUpTo(n) == UNION {TextsOfLen(k) : k \in 0..n}

\* The fields of a record besides its title.
OtherFields ==
    { <<>>,
      [descriptionText |-> <<"a", " ", "a", "a", "a", "a">>],
      [descriptionText |-> <<"a", "a", " ", "a">>, jobFunction |-> <<"A", "a">>,
       industries |-> <<"a", " ", "a", "a">>] }

\* The records of the calls: with every title, and without a title.
CallJobs ==
    OtherFields \cup {SetItem(rest, "title", t) : rest \in OtherFields,
                                                 t \in TextsUpTo(MaxTitleLen)}

\* Queries longer than MaxQueryLen: a long token with a short one, and the
\* query 'Electrical Engineer'.
ExtraQueries ==
    { <<"a", "a", "a", "a", " ", "a">>,
      <<"E", "l", "e", "c", "t", "r", "i", "c", "a", "l", " ", "E", "n",
        "g", "i", "n", "e", "e", "r">> }

\* The record with title 'Electrical Engineer II', an empty description, job
\* function 'Engineering' and empty industries.
ExampleJob ==
    [ title |-> <<"E", "l", "e", "c", "t", "r", "i", "c", "a", "l", " ",
                 "E", "n", "g", "i", "n", "e", "e", "r", " ", "I", "I">>,
      descriptionText |-> <<>>,
      jobFunction |-> <<"E", "n", "g", "i", "n", "e", "e", "r", "i", "n",
                       "g">>,
      industries |-> <<>> ]

\* The thresholds of the calls: those of the slider, and 1.6.
CallThresholds == Thresholds \cup {Frac(8, 5)}

InitCall ==
    /\ heap = <<>>
    /\ jobs_data = <<>>
    /\ filtered_jobs = <<>>
    /\ job_functions_history = <<>>
    /\ applications_data = <<>>
    /\ sort_column = "_similarity_score"
    /\ sort_reverse = TRUE
    /\ application_filter = "all"
    /\ tree = <<>>
    /\ export_data = <<>>
    /\ loaded = <<>>
    /\ last = <<"init">>
    /\ call \in [job : CallJobs \cup {ExampleJob},
                 job_function : TextsUpTo(MaxQueryLen) \cup ExtraQueries,
                 threshold : CallThresholds, result : {<<>>}]

call_matches_job_function ==
    /\ "job" \in DOMAIN call
    /\ call.result = <<>>
    /\ call' = [call EXCEPT !.result =
                    matches_job_function(call.job, call.job_function, call.threshold)]
    /\ UNCHANGED <<heap, jobs_data, filtered_jobs, job_functions_history,
                   applications_data, sort_column, sort_reverse, application_filter,
                   tree, export_data, loaded, last>>

NextCall == call_matches_job_function

SpecCall == InitCall /\ [][NextCall]_vars

(***************************************************************************)
(* calculate_similarity on its own: one call on two texts drawn from       *)
(* bounded sets                                                            *)
(***************************************************************************)

\* The longest text of a call.
MaxTextLen == 4

\* 'Senior Electrical Engineer' and 'electrical engineer'.
ExampleTexts ==
    { <<"S", "e", "n", "i", "o", "r", " ", "E", "l", "e", "c", "t", "r",
        "i", "c", "a", "l", " ", "E", "n", "g", "i", "n", "e", "e", "r">>,
      <<"e", "l", "e", "c", "t", "r", "i", "c", "a", "l", " ", "e", "n",
        "g", "i", "n", "e", "e", "r">> }

SimilarityTexts == TextsUpTo(MaxTextLen) \cup ExampleTexts

InitSimilarity ==
    /\ heap = <<>>
    /\ jobs_data = <<>>
    /\ filtered_jobs = <<>>
    /\ job_functions_history = <<>>
    /\ applications_data = <<>>
    /\ sort_column = "_similarity_score"
    /\ sort_reverse = TRUE
    /\ application_filter = "all"
    /\ tree = <<>>
    /\ export_data = <<>>
    /\ loaded = <<>>
    /\ last = <<"init">>
    /\ call \in [text1 : SimilarityTexts, text2 : SimilarityTexts, result : {<<>>}]

call_calculate_similarity ==
    /\ "text1" \in DOMAIN call
    /\ call.result = <<>>
    /\ call' = [call EXCEPT !.result = calculate_similarity(call.text1, call.text2)]
    /\ UNCHANGED <<heap, jobs_data, filtered_jobs, job_functions_history,
                   applications_data, sort_column, sort_reverse, application_filter,
                   tree, export_data, loaded, last>>

NextSimilarity == call_calculate_similarity

SpecSimilarity == InitSimilarity /\ [][NextSimilarity]_vars

(***************************************************************************)
(* The application and the calls of matches_job_function together          *)
(***************************************************************************)

InitAll == Init \/ InitCall

NextAll == Next \/ NextCall

SpecAll == InitAll /\ [][NextAll]_vars

(***************************************************************************)
(* ResumeParser._estimate_experience                                       *)
(***************************************************************************)

\* \d on one character.
IsDigit(c) == c \in {"0", "1", "2", "3", "4", "5", "6", "7", "8", "9"}

\* The value of one decimal digit.
DigitValue(c) ==
    CASE c = "0" -> 0 [] c = "1" -> 1 [] c = "2" -> 2 [] c = "3" -> 3
      [] c = "4" -> 4 [] c = "5" -> 5 [] c = "6" -> 6 [] c = "7" -> 7
      [] c = "8" -> 8 [] c = "9" -> 9

\* int() of a string of decimal digits.
RECURSIVE IntOf(_)
IntOf(digits) ==
    IF digits = <<>> THEN 0
    ELSE 10 * IntOf(SubSeq(digits, 1, Len(digits) - 1)) + DigitValue(digits[Len(digits)])

\* The literal lit stands in s at position i.
LitAt(s, i, lit) ==
    /\ i + Len(lit) - 1 <= Len(s)
    /\ lit = <<>> \/ s[i] = lit[1]
    /\ SubSeq(s, i, i + Len(lit) - 1) = lit

\* The position after the longest run of \d from position i (\d+, \d*).
RECURSIVE SkipDigits(_, _)
SkipDigits(s, i) ==
    IF i <= Len(s) /\ IsDigit(s[i]) THEN SkipDigits(s, i + 1) ELSE i

\* The position after the longest run of \s from position i (\s+, \s*).
RECURSIVE SkipSpaces(_, _)
SkipSpaces(s, i) ==
    IF i <= Len(s) /\ IsSpace(s[i]) THEN SkipSpaces(s, i + 1) ELSE i

\* The position after the longest run of [:\s] from position i.
RECURSIVE SkipColonsSpaces(_, _)
SkipColonsSpaces(s, i) ==
    IF i <= Len(s) /\ (s[i] = ":" \/ IsSpace(s[i])) THEN SkipColonsSpaces(s, i + 1) ELSE i

\* years? at position i: the position after it, 0 when it does not match.
YearsEnd(s, i) ==
    IF LitAt(s, i, <<"y", "e", "a", "r">>)
    THEN (IF LitAt(s, i + 4, <<"s">>) THEN i + 5 ELSE i + 4)
    ELSE 0

\* \+?\s*years? at position i: the position after it, 0 when it does not
\* match.
PlusYearsEnd(s, i) ==
    YearsEnd(s, SkipSpaces(s, IF LitAt(s, i, <<"+">>) THEN i + 1 ELSE i))

Experience == <<"e", "x", "p", "e", "r", "i", "e", "n", "c", "e">>

\* (?:of\s+)?experience at position i: the position after it, 0 when it
\* does not match.
OfExperienceEnd(s, i) ==
    IF /\ LitAt(s, i, <<"o", "f">>)
       /\ SkipSpaces(s, i + 2) > i + 2
       /\ LitAt(s, SkipSpaces(s, i + 2), Experience)
    THEN SkipSpaces(s, i + 2) + Len(Experience)
    ELSE IF LitAt(s, i, Experience) THEN i + Len(Experience)
    ELSE 0

\* \s+ at position i followed by the rest of the pattern: the position the
\* rest starts at, 0 when there is no white space at i.
AfterSpaces(s, i) ==
    IF i # 0 /\ SkipSpaces(s, i) > i THEN SkipSpaces(s, i) ELSE 0

\* \s+in at position i: the position after it, 0 when it does not match.
InEnd(s, i) ==
    IF i # 0 /\ LitAt(s, i, <<"i", "n">>) THEN i + 2 ELSE 0

\* One match of a pattern: the position after the match and the text
\* re.findall reports for it (the group, or the whole match when the
\* pattern has no group); <<>> when the pattern does not match there.
Match(end, text) == IF end = 0 THEN <<>> ELSE <<end, text>>

\* (\d+)\+?\s*years?\s+(?:of\s+)?experience at position i.
YearsOfExperienceAt(s, i) ==
    IF ~IsDigit(s[i]) THEN <<>>
    ELSE IF AfterSpaces(s, PlusYearsEnd(s, SkipDigits(s, i))) = 0 THEN <<>>
    ELSE Match(OfExperienceEnd(s, AfterSpaces(s, PlusYearsEnd(s, SkipDigits(s, i)))),
               SubSeq(s, i, SkipDigits(s, i) - 1))

\* experience[:\s]+(\d+)\+?\s*years? at position i.
ExperienceYearsAt(s, i) ==
    IF ~LitAt(s, i, Experience) THEN <<>>
    ELSE IF SkipColonsSpaces(s, i + Len(Experience)) = i + Len(Experience) THEN <<>>
    ELSE IF SkipDigits(s, SkipColonsSpaces(s, i + Len(Experience)))
                = SkipColonsSpaces(s, i + Len(Experience)) THEN <<>>
    ELSE Match(PlusYearsEnd(s, SkipDigits(s, SkipColonsSpaces(s, i + Len(Experience)))),
               SubSeq(s, SkipColonsSpaces(s, i + Len(Experience)),
                      SkipDigits(s, SkipColonsSpaces(s, i + Len(Experience))) - 1))

\* (\d+)\+?\s*years?\s+in at position i.
YearsInAt(s, i) ==
    IF ~IsDigit(s[i]) THEN <<>>
    ELSE Match(InEnd(s, AfterSpaces(s, PlusYearsEnd(s, SkipDigits(s, i)))),
               SubSeq(s, i, SkipDigits(s, i) - 1))

\* (?:19|20)\d{2} at position i.
YearAt(s, i) ==
    /\ i + 3 <= Len(s)
    /\ SubSeq(s, i, i + 1) \in {<<"1", "9">>, <<"2", "0">>}
    /\ IsDigit(s[i + 2])
    /\ IsDigit(s[i + 3])

\* The dashes of the range pattern; the en dash and the em dash of the
\* pattern are not in the alphabet of the texts.
IsDash(c) == c = "-"

Present == <<"p", "r", "e", "s", "e", "n", "t">>

Current == <<"c", "u", "r", "r", "e", "n", "t">>

\* (?:(?:19|20)\d{2}|present|current) at position i: the position after
\* it, 0 when it does not match.
RangeEndAt(s, i) ==
    IF YearAt(s, i) THEN i + 4
    ELSE IF LitAt(s, i, Present) THEN i + Len(Present)
    ELSE IF LitAt(s, i, Current) THEN i + Len(Current)
    ELSE 0

\* (?:19|20)\d{2}\s*[-...]\s*(?:(?:19|20)\d{2}|present|current) at
\* position i.
DateRangeAt(s, i) ==
    IF ~YearAt(s, i) THEN <<>>
    ELSE IF ~(SkipSpaces(s, i + 4) <= Len(s) /\ IsDash(s[SkipSpaces(s, i + 4)])) THEN <<>>
    ELSE IF RangeEndAt(s, SkipSpaces(s, SkipSpaces(s, i + 4) + 1)) = 0 THEN <<>>
    ELSE <<RangeEndAt(s, SkipSpaces(s, SkipSpaces(s, i + 4) + 1)),
           SubSeq(s, i, RangeEndAt(s, SkipSpaces(s, SkipSpaces(s, i + 4) + 1)) - 1)>>

\* The patterns of _estimate_experience: the three of exp_patterns in their
\* order, then the pattern of the date ranges.
PatternAt(pattern, s, i) ==
    CASE pattern = 1 -> YearsOfExperienceAt(s, i)
      [] pattern = 2 -> ExperienceYearsAt(s, i)
      [] pattern = 3 -> YearsInAt(s, i)
      [] pattern = 4 -> DateRangeAt(s, i)

\* The positions from i on at which the pattern matches.
MatchStarts(pattern, s, i) ==
    {j \in i..Len(s) : PatternAt(pattern, s, j) # <<>>}

\* The smallest of a non-empty set of positions.
FirstOf(positions) == CHOOSE j \in positions : \A k \in positions : j <= k

\* The scan of re.findall from position i: the leftmost match from there is
\* reported and the scan goes on after it.
RECURSIVE ReFindAllFrom(_, _, _)
ReFindAllStep(pattern, s, m) == <<m[2]>> \o ReFindAllFrom(pattern, s, m[1])

ReFindAllFrom(pattern, s, i) ==
    IF MatchStarts(pattern, s, i) = {} THEN <<>>
    ELSE ReFindAllStep(pattern, s,
                       PatternAt(pattern, s, FirstOf(MatchStarts(pattern, s, i))))

\* re.findall(pattern, text)
ReFindAll(pattern, s) == ReFindAllFrom(pattern, s, 1)

\* The loop over the matches of one pattern: max_years = max(max_years,
\* int(match)).
RECURSIVE MaxYearsOver(_, _)
MaxYearsOver(matches, max_years) ==
    IF matches = <<>> THEN max_years
    ELSE MaxYearsOver(Tail(matches), Max2(max_years, IntOf(Head(matches))))

\* max_years after the loop over exp_patterns.
ExplicitYears(text_lower) ==
    MaxYearsOver(ReFindAll(3, text_lower),
        MaxYearsOver(ReFindAll(2, text_lower),
            MaxYearsOver(ReFindAll(1, text_lower), 0)))

\* The largest estimate from date ranges.
YearsCap == 20

\* min(len(date_ranges) * 2, 20); no date range leaves max_years 0.
YearsFromRanges(date_ranges) ==
    IF Len(date_ranges) * 2 <= YearsCap THEN Len(date_ranges) * 2 ELSE YearsCap

MaxYearsOrRanges(max_years, text_lower) ==
    IF max_years = 0 THEN YearsFromRanges(ReFindAll(4, text_lower))
    ELSE max_years

\* ResumeParser._estimate_experience on the text self.resume_text.
estimate_experience(resume_text) ==
    The({The({MaxYearsOrRanges(max_years, text_lower) :
                 max_years \in {ExplicitYears(text_lower)}}) :
            text_lower \in {Lower(resume_text)}})

\* The largest number of fragments a resume text is made of.
MaxFragments == 3

\* The pieces the resume texts are made of:
\*   '5+ years of experience in software development'
\*   ' 12 years in '          ' Experience: 3 Years '
\*   ' 0 years experience '   '2019-2021 '   '2021 - Present '
\*   '2001-2002 2003-2004 2005-2006 2007-current '
Fragments ==
    << <<"5", "+", " ", "y", "e", "a", "r", "s", " ", "o", "f", " ", "e",
         "x", "p", "e", "r", "i", "e", "n", "c", "e", " ", "i", "n", " ",
         "s", "o", "f", "t", "w", "a", "r", "e", " ", "d", "e", "v", "e",
         "l", "o", "p", "m", "e", "n", "t">>,
       <<" ", "1", "2", " ", "y", "e", "a", "r", "s", " ", "i", "n", " ">>,
       <<" ", "E", "x", "p", "e", "r", "i", "e", "n", "c", "e", ":", " ",
         "3", " ", "Y", "e", "a", "r", "s", " ">>,
       <<" ", "0", " ", "y", "e", "a", "r", "s", " ", "e", "x", "p", "e",
         "r", "i", "e", "n", "c", "e", " ">>,
       <<"2", "0", "1", "9", "-", "2", "0", "2", "1", " ">>,
       <<"2", "0", "2", "1", " ", "-", " ", "P", "r", "e", "s", "e", "n",
         "t", " ">>,
       <<"2", "0", "0", "1", "-", "2", "0", "0", "2", " ", "2", "0", "0",
         "3", "-", "2", "0", "0", "4", " ", "2", "0", "0", "5", "-", "2",
         "0", "0", "6", " ", "2", "0", "0", "7", "-", "c", "u", "r", "r",
         "e", "n", "t", " ">> >>

\* The concatenation of the fragments named by the sequence of indices.
RECURSIVE Concat(_)
Concat(indices) ==
    IF indices = <<>> THEN <<>>
    ELSE Fragments[Head(indices)] \o Concat(Tail(indices))

ResumeTexts ==
    { Concat(indices) :
        indices \in UNION { [1..n -> 1..Len(Fragments)] : n \in 0..MaxFragments } }

\* One call of _estimate_experience on a parser whose resume_text is set.
InitExperience ==
    /\ heap = <<>>
    /\ jobs_data = <<>>
    /\ filtered_jobs = <<>>
    /\ job_functions_history = <<>>
    /\ applications_data = <<>>
    /\ sort_column = "_similarity_score"
    /\ sort_reverse = TRUE
    /\ application_filter = "all"
    /\ tree = <<>>
    /\ export_data = <<>>
    /\ loaded = <<>>
    /\ last = <<"init">>
    /\ call \in [resume_text : ResumeTexts, result : {<<>>}]

call_estimate_experience ==
    /\ "resume_text" \in DOMAIN call
    /\ call.result = <<>>
    /\ call' = [call EXCEPT !.result = <<estimate_experience(call.resume_text)>>]
    /\ UNCHANGED <<heap, jobs_data, filtered_jobs, job_functions_history,
                   applications_data, sort_column, sort_reverse, application_filter,
                   tree, export_data, loaded, last>>

NextExperience == call_estimate_experience

SpecExperience == InitExperience /\ [][NextExperience]_vars

(***************************************************************************)
(* ResumeParser._extract_skills                                            *)
(***************************************************************************)

\* ResumeParser.SKILLS_DATABASE
SKILLS_DATABASE ==
    { <<"a", "e", "r", "o", "s", "p", "a", "c", "e", " ", "e", "n", "g", "i",
        "n", "e", "e", "r", "i", "n", "g">>,
      <<"a", "g", "i", "l", "e">>,
      <<"a", "i">>,
      <<"a", "n", "g", "u", "l", "a", "r">>,
      <<"a", "n", "s", "i", "b", "l", "e">>,
      <<"a", "n", "s", "y", "s">>,
      <<"a", "p", "i">>,
      <<"a", "r", "t", "i", "f", "i", "c", "i", "a", "l", " ", "i", "n", "t",
        "e", "l", "l", "i", "g", "e", "n", "c", "e">>,
      <<"a", "s", "p", ".", "n", "e", "t">>,
      <<"a", "u", "t", "o", "c", "a", "d">>,
      <<"a", "w", "s">>,
      <<"a", "z", "u", "r", "e">>,
      <<"b", "a", "s", "h">>,
      <<"b", "o", "o", "t", "s", "t", "r", "a", "p">>,
      <<"b", "u", "s", "i", "n", "e", "s", "s", " ", "a", "n", "a", "l", "y",
        "s", "i", "s">>,
      <<"c", "#">>,
      <<"c", "+", "+">>,
      <<"c", "a", "d">>,
      <<"c", "a", "s", "s", "a", "n", "d", "r", "a">>,
      <<"c", "a", "t", "i", "a">>,
      <<"c", "f", "d">>,
      <<"c", "h", "e", "m", "i", "c", "a", "l", " ", "e", "n", "g", "i", "n",
        "e", "e", "r", "i", "n", "g">>,
      <<"c", "i", "/", "c", "d">>,
      <<"c", "i", "r", "c", "u", "i", "t", " ", "d", "e", "s", "i", "g", "n">>,
      <<"c", "i", "v", "i", "l", " ", "e", "n", "g", "i", "n", "e", "e", "r",
        "i", "n", "g">>,
      <<"c", "l", "o", "u", "d">>,
      <<"c", "o", "m", "p", "u", "t", "e", "r", " ", "e", "n", "g", "i", "n",
        "e", "e", "r", "i", "n", "g">>,
      <<"c", "o", "m", "p", "u", "t", "e", "r", " ", "v", "i", "s", "i", "o",
        "n">>,
      <<"c", "r", "m">>,
      <<"c", "s", "s">>,
      <<"d", "a", "t", "a", " ", "a", "n", "a", "l", "y", "s", "i", "s">>,
      <<"d", "a", "t", "a", " ", "s", "c", "i", "e", "n", "c", "e">>,
      <<"d", "e", "b", "u", "g", "g", "i", "n", "g">>,
      <<"d", "e", "e", "p", " ", "l", "e", "a", "r", "n", "i", "n", "g">>,
      <<"d", "e", "v", "o", "p", "s">>,
      <<"d", "j", "a", "n", "g", "o">>,
      <<"d", "o", "c", "k", "e", "r">>,
      <<"d", "y", "n", "a", "m", "o", "d", "b">>,
      <<"e", "l", "a", "s", "t", "i", "c", "s", "e", "a", "r", "c", "h">>,
      <<"e", "l", "e", "c", "t", "r", "i", "c", "a", "l", " ", "e", "n", "g",
        "i", "n", "e", "e", "r", "i", "n", "g">>,
      <<"e", "m", "b", "e", "d", "d", "e", "d", " ", "s", "y", "s", "t", "e",
        "m", "s">>,
      <<"e", "r", "p">>,
      <<"e", "x", "c", "e", "l">>,
      <<"e", "x", "p", "r", "e", "s", "s">>,
      <<"f", "e", "m">>,
      <<"f", "i", "r", "e", "b", "a", "s", "e">>,
      <<"f", "l", "a", "s", "k">>,
      <<"f", "p", "g", "a">>,
      <<"g", "c", "p">>,
      <<"g", "i", "t">>,
      <<"g", "i", "t", "h", "u", "b">>,
      <<"g", "i", "t", "l", "a", "b">>,
      <<"g", "o">>,
      <<"g", "r", "a", "p", "h", "q", "l">>,
      <<"h", "t", "m", "l">>,
      <<"i", "n", "d", "u", "s", "t", "r", "i", "a", "l", " ", "e", "n", "g",
        "i", "n", "e", "e", "r", "i", "n", "g">>,
      <<"j", "a", "v", "a">>,
      <<"j", "a", "v", "a", "s", "c", "r", "i", "p", "t">>,
      <<"j", "e", "n", "k", "i", "n", "s">>,
      <<"j", "q", "u", "e", "r", "y">>,
      <<"k", "a", "n", "b", "a", "n">>,
      <<"k", "e", "r", "a", "s">>,
      <<"k", "o", "t", "l", "i", "n">>,
      <<"k", "u", "b", "e", "r", "n", "e", "t", "e", "s">>,
      <<"l", "i", "n", "u", "x">>,
      <<"m", "a", "c", "h", "i", "n", "e", " ", "l", "e", "a", "r", "n", "i",
        "n", "g">>,
      <<"m", "a", "c", "o", "s">>,
      <<"m", "a", "t", "l", "a", "b">>,
      <<"m", "e", "c", "h", "a", "n", "i", "c", "a", "l", " ", "e", "n", "g",
        "i", "n", "e", "e", "r", "i", "n", "g">>,
      <<"m", "i", "c", "r", "o", "c", "o", "n", "t", "r", "o", "l", "l", "e",
        "r", "s">>,
      <<"m", "i", "c", "r", "o", "s", "e", "r", "v", "i", "c", "e", "s">>,
      <<"m", "l">>,
      <<"m", "o", "n", "g", "o", "d", "b">>,
      <<"m", "y", "s", "q", "l">>,
      <<"n", "e", "o", "4", "j">>,
      <<"n", "e", "u", "r", "a", "l", " ", "n", "e", "t", "w", "o", "r", "k",
        "s">>,
      <<"n", "l", "p">>,
      <<"n", "o", "d", "e", ".", "j", "s">>,
      <<"n", "p", "m">>,
      <<"n", "u", "m", "p", "y">>,
      <<"o", "r", "a", "c", "l", "e">>,
      <<"p", "a", "n", "d", "a", "s">>,
      <<"p", "c", "b", " ", "d", "e", "s", "i", "g", "n">>,
      <<"p", "e", "r", "l">>,
      <<"p", "h", "p">>,
      <<"p", "l", "c">>,
      <<"p", "o", "s", "t", "g", "r", "e", "s", "q", "l">>,
      <<"p", "o", "w", "e", "r", " ", "b", "i">>,
      <<"p", "o", "w", "e", "r", "p", "o", "i", "n", "t">>,
      <<"p", "r", "o", "d", "u", "c", "t", " ", "m", "a", "n", "a", "g", "e",
        "m", "e", "n", "t">>,
      <<"p", "r", "o", "j", "e", "c", "t", " ", "m", "a", "n", "a", "g", "e",
        "m", "e", "n", "t">>,
      <<"p", "y", "t", "h", "o", "n">>,
      <<"p", "y", "t", "o", "r", "c", "h">>,
      <<"r">>,
      <<"r", "e", "a", "c", "t">>,
      <<"r", "e", "d", "i", "s">>,
      <<"r", "e", "s", "t">>,
      <<"r", "u", "b", "y">>,
      <<"r", "u", "s", "t">>,
      <<"s", "a", "l", "e", "s", "f", "o", "r", "c", "e">>,
      <<"s", "a", "p">>,
      <<"s", "c", "a", "d", "a">>,
      <<"s", "c", "a", "l", "a">>,
      <<"s", "c", "i", "k", "i", "t", "-", "l", "e", "a", "r", "n">>,
      <<"s", "c", "r", "u", "m">>,
      <<"s", "h", "e", "l", "l">>,
      <<"s", "i", "m", "u", "l", "i", "n", "k">>,
      <<"s", "o", "f", "t", "w", "a", "r", "e", " ", "e", "n", "g", "i", "n",
        "e", "e", "r", "i", "n", "g">>,
      <<"s", "o", "l", "i", "d", "w", "o", "r", "k", "s">>,
      <<"s", "p", "r", "i", "n", "g">>,
      <<"s", "q", "l">>,
      <<"s", "q", "l", "i", "t", "e">>,
      <<"s", "w", "i", "f", "t">>,
      <<"s", "y", "s", "t", "e", "m", "s", " ", "e", "n", "g", "i", "n", "e",
        "e", "r", "i", "n", "g">>,
      <<"t", "a", "b", "l", "e", "a", "u">>,
      <<"t", "a", "i", "l", "w", "i", "n", "d">>,
      <<"t", "e", "n", "s", "o", "r", "f", "l", "o", "w">>,
      <<"t", "e", "r", "r", "a", "f", "o", "r", "m">>,
      <<"t", "e", "s", "t", "i", "n", "g">>,
      <<"t", "r", "o", "u", "b", "l", "e", "s", "h", "o", "o", "t", "i", "n",
        "g">>,
      <<"t", "y", "p", "e", "s", "c", "r", "i", "p", "t">>,
      <<"u", "n", "i", "x">>,
      <<"v", "e", "r", "i", "l", "o", "g">>,
      <<"v", "h", "d", "l">>,
      <<"v", "u", "e">>,
      <<"w", "e", "b", "p", "a", "c", "k">>,
      <<"w", "i", "n", "d", "o", "w", "s">>,
      <<"y", "a", "r", "n">> }

\* r'[-\s]?', the text a hyphen of a skill is replaced by.
OptionalHyphen == <<"[", "-", "\\", "s", "]", "?">>

\* skill.replace('-', r'[-\s]?')
RECURSIVE ReplaceHyphens(_)
ReplaceHyphens(skill) ==
    IF skill = <<>> THEN <<>>
    ELSE (IF Head(skill) = "-" THEN OptionalHyphen ELSE <<Head(skill)>>)
         \o ReplaceHyphens(Tail(skill))

\* Whether position k of s holds a character of \w; a position outside s
\* does not.
WordAt(s, k) == k >= 1 /\ k <= Len(s) /\ IsWordChar(s[k])

\* \b before position i of s.
WordBoundary(s, i) == WordAt(s, i - 1) # WordAt(s, i)

\* re.search(r'\b' + re.escape(literal) + r'\b', s): re.escape makes every
\* character of literal stand for itself.
SearchWord(literal, s) ==
    \E i \in 1..Len(s) :
        /\ LitAt(s, i, literal)
        /\ WordBoundary(s, i)
        /\ WordBoundary(s, i + Len(literal))

\* ResumeParser._extract_skills on the text self.resume_text.  The text is
\* lower-cased and the entries are lower-case, so re.IGNORECASE adds nothing.
SkillsOf(text_lower) ==
    {skill \in SKILLS_DATABASE :
        \E literal \in {ReplaceHyphens(skill)} : SearchWord(literal, text_lower)}

extract_skills(resume_text) ==
    The({SkillsOf(text_lower) : text_lower \in {Lower(resume_text)}})

\* The largest number of pieces a text searched for skills is made of.
MaxPieces == 2

\* The pieces of the texts searched for skills:
\*   'Experienced with Python, React and Docker'   'scikit-learn'
\*   'scikit learn'   'scikitlearn'   'dockerized'   ' '   'C++'   'x'
\*   ', '   'R'
Pieces ==
    << <<"E", "x", "p", "e", "r", "i", "e", "n", "c", "e", "d", " ", "w",
         "i", "t", "h", " ", "P", "y", "t", "h", "o", "n", ",", " ", "R",
         "e", "a", "c", "t", " ", "a", "n", "d", " ", "D", "o", "c", "k",
         "e", "r">>,
       <<"s", "c", "i", "k", "i", "t", "-", "l", "e", "a", "r", "n">>,
       <<"s", "c", "i", "k", "i", "t", " ", "l", "e", "a", "r", "n">>,
       <<"s", "c", "i", "k", "i", "t", "l", "e", "a", "r", "n">>,
       <<"d", "o", "c", "k", "e", "r", "i", "z", "e", "d">>,
       <<" ">>,
       <<"C", "+", "+">>,
       <<"x">>,
       <<",", " ">>,
       <<"R">> >>

\* The concatenation of the pieces named by the sequence of indices.
RECURSIVE ConcatPieces(_)
ConcatPieces(indices) ==
    IF indices = <<>> THEN <<>>
    ELSE Pieces[Head(indices)] \o ConcatPieces(Tail(indices))

SkillTexts ==
    { ConcatPieces(indices) :
        indices \in UNION { [1..n -> 1..Len(Pieces)] : n \in 0..MaxPieces } }

\* One call of _extract_skills on a parser whose resume_text is set.
InitSkills ==
    /\ heap = <<>>
    /\ jobs_data = <<>>
    /\ filtered_jobs = <<>>
    /\ job_functions_history = <<>>
    /\ applications_data = <<>>
    /\ sort_column = "_similarity_score"
    /\ sort_reverse = TRUE
    /\ application_filter = "all"
    /\ tree = <<>>
    /\ export_data = <<>>
    /\ loaded = <<>>
    /\ last = <<"init">>
    /\ call \in [skill_text : SkillTexts, result : {<<>>}]

\* The result is kept in a 1-tuple, <<>> standing for "not returned yet".
call_extract_skills ==
    /\ "skill_text" \in DOMAIN call
    /\ call.result = <<>>
    /\ call' = [call EXCEPT !.result = <<extract_skills(call.skill_text)>>]
    /\ UNCHANGED <<heap, jobs_data, filtered_jobs, job_functions_history,
                   applications_data, sort_column, sort_reverse, application_filter,
                   tree, export_data, loaded, last>>

NextSkills == call_extract_skills

SpecSkills == InitSkills /\ [][NextSkills]_vars

(***************************************************************************)
(* ResumeParser._suggest_job_roles                                         *)
(***************************************************************************)

\* role_mappings, in the order the dict is written in.
role_mappings ==
    <<
      [ role |-> "Software Engineer",
        required_skills |->
            { <<"p", "y", "t", "h", "o", "n">>,
              <<"j", "a", "v", "a">>,
              <<"j", "a", "v", "a", "s", "c", "r", "i", "p", "t">>,
              <<"p", "r", "o", "g", "r", "a", "m", "m", "i", "n", "g">>,
              <<"s", "o", "f", "t", "w", "a", "r", "e">> } ],
      [ role |-> "Data Scientist",
        required_skills |->
            { <<"p", "y", "t", "h", "o", "n">>,
              <<"m", "a", "c", "h", "i", "n", "e", " ", "l", "e", "a", "r",
                "n", "i", "n", "g">>,
              <<"d", "a", "t", "a", " ", "a", "n", "a", "l", "y", "s", "i",
                "s">>,
              <<"t", "e", "n", "s", "o", "r", "f", "l", "o", "w">>,
              <<"p", "a", "n", "d", "a", "s">> } ],
      [ role |-> "DevOps Engineer",
        required_skills |->
            { <<"d", "o", "c", "k", "e", "r">>,
              <<"k", "u", "b", "e", "r", "n", "e", "t", "e", "s">>,
              <<"a", "w", "s">>,
              <<"a", "z", "u", "r", "e">>,
              <<"c", "i", "/", "c", "d">>,
              <<"j", "e", "n", "k", "i", "n", "s">> } ],
      [ role |-> "Full Stack Developer",
        required_skills |->
            { <<"r", "e", "a", "c", "t">>,
              <<"n", "o", "d", "e", ".", "j", "s">>,
              <<"j", "a", "v", "a", "s", "c", "r", "i", "p", "t">>,
              <<"h", "t", "m", "l">>,
              <<"c", "s", "s">>,
              <<"m", "o", "n", "g", "o", "d", "b">> } ],
      [ role |-> "Frontend Developer",
        required_skills |->
            { <<"r", "e", "a", "c", "t">>,
              <<"a", "n", "g", "u", "l", "a", "r">>,
              <<"v", "u", "e">>,
              <<"j", "a", "v", "a", "s", "c", "r", "i", "p", "t">>,
              <<"h", "t", "m", "l">>,
              <<"c", "s", "s">> } ],
      [ role |-> "Backend Developer",
        required_skills |->
            { <<"p", "y", "t", "h", "o", "n">>,
              <<"j", "a", "v", "a">>,
              <<"n", "o", "d", "e", ".", "j", "s">>,
              <<"s", "q", "l">>,
              <<"a", "p", "i">>,
              <<"r", "e", "s", "t">> } ],
      [ role |-> "Machine Learning Engineer",
        required_skills |->
            { <<"m", "a", "c", "h", "i", "n", "e", " ", "l", "e", "a", "r",
                "n", "i", "n", "g">>,
              <<"t", "e", "n", "s", "o", "r", "f", "l", "o", "w">>,
              <<"p", "y", "t", "o", "r", "c", "h">>,
              <<"p", "y", "t", "h", "o", "n">>,
              <<"d", "e", "e", "p", " ", "l", "e", "a", "r", "n", "i", "n",
                "g">> } ],
      [ role |-> "Electrical Engineer",
        required_skills |->
            { <<"e", "l", "e", "c", "t", "r", "i", "c", "a", "l", " ", "e",
                "n", "g", "i", "n", "e", "e", "r", "i", "n", "g">>,
              <<"c", "i", "r", "c", "u", "i", "t", " ", "d", "e", "s", "i",
                "g", "n">>,
              <<"p", "c", "b">>,
              <<"e", "m", "b", "e", "d", "d", "e", "d", " ", "s", "y", "s",
                "t", "e", "m", "s">> } ],
      [ role |-> "Mechanical Engineer",
        required_skills |->
            { <<"m", "e", "c", "h", "a", "n", "i", "c", "a", "l", " ", "e",
                "n", "g", "i", "n", "e", "e", "r", "i", "n", "g">>,
              <<"a", "u", "t", "o", "c", "a", "d">>,
              <<"s", "o", "l", "i", "d", "w", "o", "r", "k", "s">>,
              <<"c", "a", "d">> } ],
      [ role |-> "Business Analyst",
        required_skills |->
            { <<"b", "u", "s", "i", "n", "e", "s", "s", " ", "a", "n", "a",
                "l", "y", "s", "i", "s">>,
              <<"s", "q", "l">>,
              <<"e", "x", "c", "e", "l">>,
              <<"d", "a", "t", "a", " ", "a", "n", "a", "l", "y", "s", "i",
                "s">>,
              <<"t", "a", "b", "l", "e", "a", "u">> } ],
      [ role |-> "Product Manager",
        required_skills |->
            { <<"p", "r", "o", "d", "u", "c", "t", " ", "m", "a", "n", "a",
                "g", "e", "m", "e", "n", "t">>,
              <<"a", "g", "i", "l", "e">>,
              <<"s", "c", "r", "u", "m">>,
              <<"p", "r", "o", "j", "e", "c", "t", " ", "m", "a", "n", "a",
                "g", "e", "m", "e", "n", "t">> } ],
      [ role |-> "Cloud Engineer",
        required_skills |->
            { <<"a", "w", "s">>,
              <<"a", "z", "u", "r", "e">>,
              <<"g", "c", "p">>,
              <<"c", "l", "o", "u", "d">>,
              <<"t", "e", "r", "r", "a", "f", "o", "r", "m">> } ]
    >>

\* len(required_skills.intersection(skills_lower))
match_count(required_skills, skills_lower) ==
    Cardinality(required_skills \cap skills_lower)

\* {skill.lower() for skill in self.skills}
SkillsLower(skills) == {Lower(skill) : skill \in skills}

\* role_scores: the items of the dict in insertion order, one for each role
\* with a match, the score being match_count / len(required_skills).
RECURSIVE RoleScoresFrom(_, _)
RoleScoresFrom(skills_lower, i) ==
    IF i > Len(role_mappings) THEN <<>>
    ELSE (IF match_count(role_mappings[i].required_skills, skills_lower) > 0
          THEN << <<role_mappings[i].role,
                    Frac(match_count(role_mappings[i].required_skills, skills_lower),
                         Cardinality(role_mappings[i].required_skills))>> >>
          ELSE <<>>)
         \o RoleScoresFrom(skills_lower, i + 1)

\* Insert the item x into the list out, sorted by score descending, behind
\* every item whose score is not smaller.
RECURSIVE InsertByScore(_, _)
InsertByScore(out, x) ==
    IF out = <<>> THEN <<x>>
    ELSE IF FLess(out[Len(out)][2], x[2])
         THEN Append(InsertByScore(SubSeq(out, 1, Len(out) - 1), x), out[Len(out)])
         ELSE Append(out, x)

\* sorted(items, key=lambda x: x[1], reverse=True): stable.
RECURSIVE SortedByScoreFrom(_, _, _)
SortedByScoreFrom(items, i, out) ==
    IF i > Len(items) THEN out
    ELSE SortedByScoreFrom(items, i + 1, InsertByScore(out, items[i]))

sorted_roles(skills_lower) ==
    SortedByScoreFrom(RoleScoresFrom(skills_lower, 1), 1, <<>>)

\* The number of roles the slice sorted_roles[:5] keeps.
MaxSuggestions == 5

\* items[:n]
Slice(items, n) == SubSeq(items, 1, IF Len(items) < n THEN Len(items) ELSE n)

\* A score every role with a match exceeds.
NoRoleScore == FZero

\* The score a suggested role has to exceed, 0.2.
MinRoleScore == Frac(1, 5)

\* [role for role, score in items if score > 0.2]
RECURSIVE RolesAbove(_, _)
RolesAbove(items, i) ==
    IF i > Len(items) THEN <<>>
    ELSE (IF FLess(MinRoleScore, items[i][2]) THEN <<items[i][1]>> ELSE <<>>)
         \o RolesAbove(items, i + 1)

\* ResumeParser._suggest_job_roles on the skill set self.skills.
suggest_job_roles(skills) ==
    RolesAbove(Slice(sorted_roles(SkillsLower(skills)), MaxSuggestions), 1)

\* The largest number of skills of a parser in the calls of
\* _suggest_job_roles.
MaxSkills == 6

\* The skills the skill sets are drawn from, all of the vocabulary.
SkillPool ==
    { <<"p", "y", "t", "h", "o", "n">>,
      <<"j", "a", "v", "a">>,
      <<"j", "a", "v", "a", "s", "c", "r", "i", "p", "t">>,
      <<"r", "e", "a", "c", "t">>,
      <<"t", "e", "n", "s", "o", "r", "f", "l", "o", "w">>,
      <<"a", "w", "s">>,
      <<"s", "q", "l">>,
      <<"c", "a", "d">>,
      <<"a", "g", "i", "l", "e">>,
      <<"g", "i", "t">> }

SkillSets == {skills \in SUBSET SkillPool : Cardinality(skills) <= MaxSkills}

\* One call of _suggest_job_roles on a parser whose skills are set.
InitRoles ==
    /\ heap = <<>>
    /\ jobs_data = <<>>
    /\ filtered_jobs = <<>>
    /\ job_functions_history = <<>>
    /\ applications_data = <<>>
    /\ sort_column = "_similarity_score"
    /\ sort_reverse = TRUE
    /\ application_filter = "all"
    /\ tree = <<>>
    /\ export_data = <<>>
    /\ loaded = <<>>
    /\ last = <<"init">>
    /\ call \in [skills : SkillSets, result : {<<>>}]

\* The result is kept in a 1-tuple, <<>> standing for "not returned yet".
call_suggest_job_roles ==
    /\ "skills" \in DOMAIN call
    /\ call.result = <<>>
    /\ call' = [call EXCEPT !.result = <<suggest_job_roles(call.skills)>>]
    /\ UNCHANGED <<heap, jobs_data, filtered_jobs, job_functions_history,
                   applications_data, sort_column, sort_reverse, application_filter,
                   tree, export_data, loaded, last>>

NextRoles == call_suggest_job_roles

SpecRoles == InitRoles /\ [][NextRoles]_vars

(***************************************************************************)
(* ResumeParser._extract_job_titles, _extract_education                    *)
(***************************************************************************)

\* ResumeParser.JOB_ROLES
JOB_ROLES ==
    { <<"a", "d", "m", "i", "n", "i", "s", "t", "r", "a", "t", "o", "r">>,
      <<"a", "n", "a", "l", "y", "s", "t">>,
      <<"a", "r", "c", "h", "i", "t", "e", "c", "t">>,
      <<"c", "o", "n", "s", "u", "l", "t", "a", "n", "t">>,
      <<"c", "o", "o", "r", "d", "i", "n", "a", "t", "o", "r">>,
      <<"d", "e", "s", "i", "g", "n", "e", "r">>,
      <<"d", "e", "v", "e", "l", "o", "p", "e", "r">>,
      <<"d", "i", "r", "e", "c", "t", "o", "r">>,
      <<"e", "n", "g", "i", "n", "e", "e", "r">>,
      <<"i", "n", "t", "e", "r", "n">>,
      <<"j", "u", "n", "i", "o", "r">>,
      <<"l", "e", "a", "d">>,
      <<"m", "a", "n", "a", "g", "e", "r">>,
      <<"p", "r", "o", "g", "r", "a", "m", "m", "e", "r">>,
      <<"r", "e", "s", "e", "a", "r", "c", "h", "e", "r">>,
      <<"s", "c", "i", "e", "n", "t", "i", "s", "t">>,
      <<"s", "e", "n", "i", "o", "r">>,
      <<"s", "o", "f", "t", "w", "a", "r", "e">>,
      <<"s", "p", "e", "c", "i", "a", "l", "i", "s", "t">>,
      <<"s", "u", "p", "e", "r", "v", "i", "s", "o", "r">>,
      <<"t", "e", "c", "h", "n", "i", "c", "i", "a", "n">> }

\* ResumeParser.EDUCATION_KEYWORDS
EDUCATION_KEYWORDS ==
    { <<"a", "r", "t", "s">>,
      <<"b", "a">>,
      <<"b", "a", "c", "h", "e", "l", "o", "r">>,
      <<"b", "s">>,
      <<"b", "u", "s", "i", "n", "e", "s", "s", " ", "a", "d", "m", "i", "n",
        "i", "s", "t", "r", "a", "t", "i", "o", "n">>,
      <<"c", "h", "e", "m", "i", "s", "t", "r", "y">>,
      <<"c", "o", "l", "l", "e", "g", "e">>,
      <<"c", "o", "m", "p", "u", "t", "e", "r", " ", "s", "c", "i", "e", "n",
        "c", "e">>,
      <<"d", "e", "g", "r", "e", "e">>,
      <<"d", "o", "c", "t", "o", "r", "a", "t", "e">>,
      <<"e", "l", "e", "c", "t", "r", "i", "c", "a", "l", " ", "e", "n", "g",
        "i", "n", "e", "e", "r", "i", "n", "g">>,
      <<"e", "n", "g", "i", "n", "e", "e", "r", "i", "n", "g">>,
      <<"m", "a">>,
      <<"m", "a", "s", "t", "e", "r">>,
      <<"m", "a", "t", "h", "e", "m", "a", "t", "i", "c", "s">>,
      <<"m", "b", "a">>,
      <<"m", "e", "c", "h", "a", "n", "i", "c", "a", "l", " ", "e", "n", "g",
        "i", "n", "e", "e", "r", "i", "n", "g">>,
      <<"m", "s">>,
      <<"p", "h", "d">>,
      <<"p", "h", "y", "s", "i", "c", "s">>,
      <<"s", "c", "i", "e", "n", "c", "e">>,
      <<"t", "e", "c", "h", "n", "o", "l", "o", "g", "y">>,
      <<"u", "n", "i", "v", "e", "r", "s", "i", "t", "y">> }

\* The position of the first sep in s from position i on, Len(s) + 1 when
\* there is none.
NextSep(s, sep, i) ==
    IF \E j \in i..Len(s) : s[j] = sep
    THEN FirstOf({j \in i..Len(s) : s[j] = sep})
    ELSE Len(s) + 1

\* str.split(sep) for a separator of one character: the pieces between the
\* separators, empty ones too.
RECURSIVE SplitOnFrom(_, _, _)
SplitOnPiece(s, sep, i, j) ==
    IF j > Len(s) THEN <<SubSeq(s, i, Len(s))>>
    ELSE <<SubSeq(s, i, j - 1)>> \o SplitOnFrom(s, sep, j + 1)

SplitOnFrom(s, sep, i) == SplitOnPiece(s, sep, i, NextSep(s, sep, i))

SplitOn(s, sep) == SplitOnFrom(s, sep, 1)

\* The position after the longest run of characters that are not white
\* space from position i.
RECURSIVE SkipWord(_, _)
SkipWord(s, i) ==
    IF i <= Len(s) /\ ~IsSpace(s[i]) THEN SkipWord(s, i + 1) ELSE i

\* str.split(): the runs of characters that are not white space.
RECURSIVE SplitFrom(_, _)
SplitWord(s, start, end) ==
    IF start > Len(s) THEN <<>>
    ELSE <<SubSeq(s, start, end - 1)>> \o SplitFrom(s, end)

SplitFrom(s, i) == SplitWord(s, SkipSpaces(s, i), SkipWord(s, SkipSpaces(s, i)))

Split(s) == SplitFrom(s, 1)

\* ' '.join(words)
RECURSIVE JoinSpace(_)
JoinSpace(words) ==
    IF words = <<>> THEN <<>>
    ELSE IF Len(words) = 1 THEN words[1]
    ELSE words[1] \o <<" ">> \o JoinSpace(Tail(words))

\* re.sub(r'(?:19|20)\d{2}', '', line)
RECURSIVE RemoveYearsFrom(_, _)
RemoveYearsFrom(line, i) ==
    IF i > Len(line) THEN <<>>
    ELSE IF YearAt(line, i) THEN RemoveYearsFrom(line, i + 4)
    ELSE <<line[i]>> \o RemoveYearsFrom(line, i + 1)

\* re.sub(r'[-...]', ' ', line)
DashesToSpaces(line) == [k \in DOMAIN line |-> IF IsDash(line[k]) THEN " " ELSE line[k]]

\* The cleaned line of a candidate job title.
CleanTitleLine(line) == JoinSpace(Split(DashesToSpaces(RemoveYearsFrom(line, 1))))

\* The loop of _extract_job_titles over the lines from line i on.
RECURSIVE TitlesFrom(_, _)
TitleOfLine(line, clean_line) ==
    IF /\ \E role \in JOB_ROLES : Contains(line, role)
       /\ 10 < Len(clean_line)
       /\ Len(clean_line) < 100
    THEN <<clean_line>> ELSE <<>>

TitlesFrom(lines, i) ==
    IF i > Len(lines) THEN <<>>
    ELSE TitleOfLine(Strip(lines[i]), CleanTitleLine(Strip(lines[i])))
         \o TitlesFrom(lines, i + 1)

\* ResumeParser._extract_job_titles on the text self.resume_text.
extract_job_titles(resume_text) ==
    The({Slice(titles, 5) :
            titles \in {The({TitlesFrom(lines, 1) :
                                lines \in {SplitOn(Lower(resume_text), "\n")}})}})

\* The loop of _extract_education over the lines from line i on.
RECURSIVE EducationFrom(_, _)
EducationOfLine(line, clean_line) ==
    IF /\ \E keyword \in EDUCATION_KEYWORDS : Contains(line, keyword)
       /\ 10 < Len(clean_line)
       /\ Len(clean_line) < 200
    THEN <<clean_line>> ELSE <<>>

EducationFrom(lines, i) ==
    IF i > Len(lines) THEN <<>>
    ELSE EducationOfLine(Strip(lines[i]), JoinSpace(Split(Strip(lines[i]))))
         \o EducationFrom(lines, i + 1)

\* ResumeParser._extract_education on the text self.resume_text.
extract_education(resume_text) ==
    The({Slice(education, 5) :
            education \in {The({EducationFrom(lines, 1) :
                                   lines \in {SplitOn(Lower(resume_text), "\n")}})}})

(***************************************************************************)
(* ResumeParser.calculate_job_match_score, get_matching_skills             *)
(***************************************************************************)

\* (job_description + " " + job_title).lower()
job_text_lower(job_description, job_title) ==
    Lower(job_description \o <<" ">> \o job_title)

\* The skills of the vocabulary that are substrings of the job text.
\* skill in text: the skill is a substring of the text.
SkillIn(skill, text) == \E i \in 1..Len(text) : LitAt(text, i, skill)

job_skills(job_text) == {skill \in SKILLS_DATABASE : SkillIn(skill, job_text)}

\* The weights of the three parts of the score.
SkillWeight == Frac(1, 2)

WordWeight == Frac(3, 10)

TitleBonusWeight == Frac(1, 5)

\* The skill part: the share of the job's skills that are skills of the
\* resume, times 0.5; nothing when the job text holds no skill.
SkillPart(skills, jskills) ==
    IF jskills = {} THEN FZero
    ELSE FMul(Frac(Cardinality(skills \cap jskills), Cardinality(jskills)), SkillWeight)

\* min(keyword_score, 1.0)
FMin1(x) == IF FLess(Frac(1, 1), x) THEN Frac(1, 1) ELSE x

\* The keyword part: the share of the job's words that are words of the
\* resume, times 0.3.
WordPart(resume_words, job_words) ==
    FMul(FMin1(Frac(Cardinality(resume_words \cap job_words),
                    Max2(Cardinality(job_words), 1))),
         WordWeight)

\* word in job_title.lower(): the word is a substring of the title.
WordInTitle(word, title_lower) == Contains(title_lower, word)

\* The title score: 0.8 when a word of an extracted title is in the job
\* title, else 0.
title_score(job_titles, title_lower) ==
    IF \E k \in DOMAIN job_titles :
           \E word \in Range(Split(job_titles[k])) : WordInTitle(word, title_lower)
    THEN Frac(4, 5) ELSE FZero

\* min(score, 1.0) of the sum of the three parts.
ScoreOfParts(skill_part, word_part, title_part) ==
    FMin1(FAdd(FAdd(skill_part, word_part), title_part))

\* The score of a parser with a resume text, job_text being job_text_lower.
ScoreOnText(p, job_text, title_lower) ==
    The({ScoreOfParts(skill_part, word_part, title_part) :
            skill_part \in {The({SkillPart(p.skills, jskills) :
                                    jskills \in {job_skills(job_text)}})},
            word_part \in {The({WordPart(resume_words, job_words) :
                                   resume_words \in {Range(Split(Lower(p.resume_text)))},
                                   job_words \in {Range(Split(job_text))}})},
            title_part \in {FMul(title_score(p.job_titles, title_lower),
                                 TitleBonusWeight)}})

\* ResumeParser.calculate_job_match_score on a parser p.
calculate_job_match_score(p, job_description, job_title) ==
    IF p.resume_text = <<>> THEN FZero
    ELSE The({ScoreOnText(p, job_text, title_lower) :
                 job_text \in {job_text_lower(job_description, job_title)},
                 title_lower \in {Lower(job_title)}})

\* ResumeParser.get_matching_skills on a parser p: the skills of the list it
\* returns, which is in the iteration order of the set self.skills.
get_matching_skills(p, job_description) ==
    The({{skill \in p.skills : SkillIn(Lower(skill), job_text)} :
            job_text \in {Lower(job_description)}})

(***************************************************************************)
(* ResumeParser.__init__, parse_resume                                     *)
(***************************************************************************)

\* The parser after __init__.
NewParser ==
    [resume_text |-> <<>>, skills |-> {}, experience_years |-> 0,
     job_titles |-> <<>>, education |-> <<>>, suggested_roles |-> <<>>]

\* The parser after the extractions on the text, skills being what
\* _extract_skills returned for it.
ExtractedWith(text, skills) ==
    [resume_text |-> text,
     skills |-> skills,
     experience_years |-> estimate_experience(text),
     job_titles |-> extract_job_titles(text),
     education |-> extract_education(text),
     suggested_roles |-> suggest_job_roles(skills)]

Extracted(text) ==
    The({ExtractedWith(text, skills) : skills \in {extract_skills(text)}})

\* What the extraction of the text of a file gives: <<text>>, or <<>> when
\* it raises.  A PDF's pages are joined with a newline after each page and
\* a PDF without text raises; a file that cannot be read raises.
ExtractText(file) ==
    IF ~file.readable THEN <<>>
    ELSE IF file.format = "pdf"
         THEN (IF Strip(file.text) = <<>> THEN <<>> ELSE <<file.text \o <<"\n">>>>)
    ELSE <<file.text>>

\* The parser after parse_resume(file), and whether the call raised.
ParseResult(p, file, extraction) ==
    IF file.format \notin {"pdf", "docx", "txt"} THEN [parser |-> p, raised |-> TRUE]
    ELSE IF extraction = <<>> THEN [parser |-> p, raised |-> TRUE]
    ELSE IF extraction[1] = <<>>
         THEN [parser |-> [p EXCEPT !.resume_text = <<>>], raised |-> TRUE]
    ELSE [parser |-> Extracted(extraction[1]), raised |-> FALSE]

\* The largest number of parse_resume calls on one parser.
MaxParses == 2

\* The texts of the resume files:
\*   ''
\*   'Senior Software Engineer at Acme\nPython, Java and SQL\n5 years of experience\nBachelor of Science'
\*   'Data Analyst 2019-2021\nExcel and Tableau'
\*   ' '
ResumeFileTexts ==
    << <<>>,
       <<"S", "e", "n", "i", "o", "r", " ", "S", "o", "f", "t", "w", "a",
         "r", "e", " ", "E", "n", "g", "i", "n", "e", "e", "r", " ", "a",
         "t", " ", "A", "c", "m", "e", "\n", "P", "y", "t", "h", "o", "n",
         ",", " ", "J", "a", "v", "a", " ", "a", "n", "d", " ", "S", "Q",
         "L", "\n", "5", " ", "y", "e", "a", "r", "s", " ", "o", "f", " ",
         "e", "x", "p", "e", "r", "i", "e", "n", "c", "e", "\n", "B", "a",
         "c", "h", "e", "l", "o", "r", " ", "o", "f", " ", "S", "c", "i",
         "e", "n", "c", "e">>,
       <<"D", "a", "t", "a", " ", "A", "n", "a", "l", "y", "s", "t", " ",
         "2", "0", "1", "9", "-", "2", "0", "2", "1", "\n", "E", "x", "c",
         "e", "l", " ", "a", "n", "d", " ", "T", "a", "b", "l", "e", "a",
         "u">>,
       <<" ">> >>

\* The resume files: text files with each of the texts, a PDF with the
\* first text and one without text, a file of an unsupported format and a
\* text file that cannot be read.
ResumeFiles ==
    {[format |-> "txt", readable |-> TRUE, text |-> ResumeFileTexts[k]] :
        k \in DOMAIN ResumeFileTexts}
    \cup {[format |-> "pdf", readable |-> TRUE, text |-> ResumeFileTexts[2]],
          [format |-> "pdf", readable |-> TRUE, text |-> ResumeFileTexts[4]],
          [format |-> "doc", readable |-> TRUE, text |-> ResumeFileTexts[2]],
          [format |-> "txt", readable |-> FALSE, text |-> ResumeFileTexts[2]]}

\* The job descriptions and job titles of the calls:
\*   'Python and SQL developer'
\*   'We need Excel'
\*   ''
\*   'data'
\*   'Engineering Manager'
\*   'Data Analyst'
\*   'Software Engineer'
\*   ''
JobDescriptions ==
    { <<"P", "y", "t", "h", "o", "n", " ", "a", "n", "d", " ", "S", "Q", "L",
        " ", "d", "e", "v", "e", "l", "o", "p", "e", "r">>,
      <<"W", "e", " ", "n", "e", "e", "d", " ", "E", "x", "c", "e", "l">>,
      <<>>,
      <<"d", "a", "t", "a">> }

JobTitles ==
    { <<"E", "n", "g", "i", "n", "e", "e", "r", "i", "n", "g", " ", "M", "a",
        "n", "a", "g", "e", "r">>,
      <<"D", "a", "t", "a", " ", "A", "n", "a", "l", "y", "s", "t">>,
      <<"S", "o", "f", "t", "w", "a", "r", "e", " ", "E", "n", "g", "i", "n",
        "e", "e", "r">>,
      <<>> }

\* A new parser, before any call.
InitParser ==
    /\ heap = <<>>
    /\ jobs_data = <<>>
    /\ filtered_jobs = <<>>
    /\ job_functions_history = <<>>
    /\ applications_data = <<>>
    /\ sort_column = "_similarity_score"
    /\ sort_reverse = TRUE
    /\ application_filter = "all"
    /\ tree = <<>>
    /\ export_data = <<>>
    /\ loaded = <<>>
    /\ last = <<"init">>
    /\ call = [parser |-> NewParser, parses |-> 0, op |-> <<"__init__">>,
               raised |-> FALSE, result |-> <<>>]

ParserUnchanged ==
    UNCHANGED <<heap, jobs_data, filtered_jobs, job_functions_history,
                applications_data, sort_column, sort_reverse, application_filter,
                tree, export_data, loaded, last>>

parse_resume(file) ==
    /\ "parser" \in DOMAIN call
    /\ call.parses < MaxParses
    /\ \E r \in {ParseResult(call.parser, file, ExtractText(file))} :
           call' = [parser |-> r.parser,
                    parses |-> call.parses + 1,
                    op |-> <<"parse_resume", file>>,
                    raised |-> r.raised,
                    result |-> <<>>]
    /\ ParserUnchanged

call_calculate_job_match_score(job_description, job_title) ==
    /\ "parser" \in DOMAIN call
    /\ call' = [call EXCEPT
                  !.op = <<"calculate_job_match_score", job_description, job_title>>,
                  !.raised = FALSE,
                  !.result = <<calculate_job_match_score(call.parser, job_description,
                                                         job_title)>>]
    /\ ParserUnchanged

call_get_matching_skills(job_description) ==
    /\ "parser" \in DOMAIN call
    /\ call' = [call EXCEPT
                  !.op = <<"get_matching_skills", job_description>>,
                  !.raised = FALSE,
                  !.result = <<get_matching_skills(call.parser, job_description)>>]
    /\ ParserUnchanged

NextParser ==
    \/ \E file \in ResumeFiles : parse_resume(file)
    \/ \E job_description \in JobDescriptions, job_title \in JobTitles :
           call_calculate_job_match_score(job_description, job_title)
    \/ \E job_description \in JobDescriptions : call_get_matching_skills(job_description)

SpecParser == InitParser /\ [][NextParser]_vars

(***************************************************************************)
(* Properties of the result list                                           *)
(***************************************************************************)

\* The records of the result list, in its order.
Results == Deref(heap, filtered_jobs)

\* Whether record j1 has a smaller value than j2 in the column sort_key.  A
\* text column reads a missing field as ''; two records of which one has no
\* score, or no applied indicator, are not ordered by that column.
RecLess(j1, j2, sort_key) ==
    IF sort_key \in {"_similarity_score", "_applied_status"}
    THEN /\ sort_key \in DOMAIN j1
         /\ sort_key \in DOMAIN j2
         /\ KeyLess(j1[sort_key], j2[sort_key], sort_key)
    ELSE StrLess(Get(j1, sort_key, <<>>), Get(j2, sort_key, <<>>))

\* No record of recs stands behind one it has to come before.
SortedBy(recs, sort_key, reverse) ==
    \A i, j \in 1..Len(recs) :
        i < j => ~ (IF reverse THEN RecLess(recs[i], recs[j], sort_key)
                    ELSE RecLess(recs[j], recs[i], sort_key))

\* The position of the object a in the list of references.
Pos(list, a) == CHOOSE k \in 1..Len(list) : list[k] = a

\* The objects of the list before that have equal values in the column
\* sort_key stand in the list after in the order they had before.
TiesKeepOrder(before, after, h, sort_key) ==
    \A i, j \in 1..Len(before) :
        (/\ i < j
         /\ ~RecLess(h[before[i]], h[before[j]], sort_key)
         /\ ~RecLess(h[before[j]], h[before[i]], sort_key))
        => Pos(after, before[i]) < Pos(after, before[j])

\* The score of the k-th record of the result list.
ScoreOf(k) == Results[k]["_similarity_score"]

\* C1: after every filter_jobs and every sort_by_column the result list is
\* sorted by the active sort key in the active direction, and a sort leaves
\* records with equal keys in their prior relative order.
C1_SortedByActiveKey ==
    [][ last'[1] \in {"filter_jobs", "sort_by_column"} =>
            /\ SortedBy(Results', sort_column', sort_reverse')
            /\ last'[1] = "sort_by_column" =>
                   TiesKeepOrder(filtered_jobs, filtered_jobs', heap', sort_column')
      ]_vars

\* C2, as stated: the first sort_by_column('similarity') on a fresh result
\* set leaves the result list in descending order of score.
C2_FirstSimilaritySortDescending ==
    [][ (last[1] = "filter_jobs" /\ last' = <<"sort_by_column", "similarity">>) =>
            SortedBy(Results', "_similarity_score", TRUE)
      ]_vars

\* C2, amended: the first sort_by_column('similarity') on a fresh result set
\* leaves the result list in ascending order of score when the active sort
\* state is (score, descending), as it is from start-up on, and in descending
\* order in every other sort state.
C2_FirstSimilaritySortTogglesActiveScore ==
    [][ (last[1] = "filter_jobs" /\ last' = <<"sort_by_column", "similarity">>) =>
            LET toggles == sort_column = "_similarity_score" /\ sort_reverse
            IN  /\ sort_column' = "_similarity_score"
                /\ sort_reverse' = ~toggles
                /\ SortedBy(Results', "_similarity_score", ~toggles)
      ]_vars

\* C2: a sort by similarity has just left two results of different scores in
\* ascending order.
C2_Witness ==
    /\ last = <<"sort_by_column", "similarity">>
    /\ sort_column = "_similarity_score"
    /\ ~sort_reverse
    /\ \E k \in 1..Len(Results) :
           k < Len(Results) /\ FLess(ScoreOf(k), ScoreOf(k + 1))

\* C3: the first sort_by_column('title') on a fresh result set sorts
\* ascending by title, and a sort_by_column that follows a sort_by_column of
\* the same column sorts in the opposite direction.
C3_TitleSortAscendingThenAlternates ==
    [][ /\ (last[1] = "filter_jobs" /\ last' = <<"sort_by_column", "title">>) =>
               (~sort_reverse' /\ SortedBy(Results', "title", FALSE))
        /\ (last[1] = "sort_by_column" /\ last' = last) =>
               (/\ sort_reverse' = ~sort_reverse
                /\ SortedBy(Results', sort_column', sort_reverse'))
      ]_vars

\* C4: a sort_by_column of a column other than the active one sorts
\* descending if the column is similarity and ascending otherwise.
C4_NewColumnDirection ==
    [][ (last'[1] = "sort_by_column" /\ column_map(last'[2]) # sort_column) =>
            /\ sort_column' = column_map(last'[2])
            /\ sort_reverse' = (last'[2] = "similarity")
            /\ SortedBy(Results', sort_column', last'[2] = "similarity")
      ]_vars

\* C4: a sort by title has just left two results of different titles in
\* ascending order.
C4_Witness ==
    /\ last = <<"sort_by_column", "title">>
    /\ sort_column = "title"
    /\ ~sort_reverse
    /\ \E k \in 1..Len(Results) :
           k < Len(Results) /\ RecLess(Results[k], Results[k + 1], "title")

(***************************************************************************)
(* Properties of filter_jobs                                               *)
(***************************************************************************)

\* The copies of the i-th record of the corpus in the result list: the
\* records with its fields and values and the score m.
CopiesOf(i, m) ==
    {k \in 1..Len(Results) : Results[k] = SetItem(loaded[i], "_similarity_score", m)}

\* C5: after filter_jobs a record of the corpus is in the result list exactly
\* once, with its score, if its score is at least the threshold, and not at
\* all otherwise; the result list holds nothing else.
C5_KeptIffScoreAtLeastThreshold ==
    last[1] = "filter_jobs" =>
        /\ \A i \in 1..Len(loaded) :
               LET m == matches_job_function(loaded[i], last[2], last[3])[2]
               IN  /\ Cardinality(CopiesOf(i, m)) = IF FLeq(last[3], m) THEN 1 ELSE 0
                   /\ FLess(m, last[3]) =>
                          \A k \in 1..Len(Results) :
                              Pop(Results[k], "_similarity_score") # loaded[i]
        /\ \A k \in 1..Len(Results) :
               \E i \in 1..Len(loaded) :
                   k \in CopiesOf(i, matches_job_function(loaded[i], last[2], last[3])[2])

\* C5: a filter has just kept one record of the corpus and dropped another.
C5_Witness ==
    /\ last[1] = "filter_jobs"
    /\ Len(Results) >= 1
    /\ \E i \in 1..Len(loaded) :
           FLess(matches_job_function(loaded[i], last[2], last[3])[2], last[3])

\* The place in the corpus of the record a result was copied from.
CorpusIndex(rec) ==
    CHOOSE i \in 1..Len(loaded) : loaded[i] = Pop(rec, "_similarity_score")

\* C6: after filter_jobs the scores of the result list do not increase, and
\* results of equal score stand in the order of their records in the corpus.
C6_FilterOrdersByScoreDescending ==
    last[1] = "filter_jobs" =>
        \A k, l \in 1..Len(Results) :
            k < l => /\ FLeq(ScoreOf(l), ScoreOf(k))
                     /\ ScoreOf(l) = ScoreOf(k) =>
                            CorpusIndex(Results[k]) < CorpusIndex(Results[l])

\* C6: a filter has just kept two records of equal score.
C6_Witness ==
    /\ last[1] = "filter_jobs"
    /\ \E k, l \in 1..Len(Results) : k < l /\ ScoreOf(k) = ScoreOf(l)

\* The result list of a filter that is the first operation on the corpus.
FirstFilter(corpus, job_function, threshold) ==
    LET l == LoadObjects(corpus, 1, <<>>, <<>>)
        r == FilterResult(l.heap, l.list, TRUE, job_function, threshold)
    IN  Deref(r.heap, r.list)

\* C7: the result list filter_jobs leaves is the one the same corpus, query
\* and threshold give as the first operation of a run, whatever was filtered,
\* sorted, shown or marked before.
C7_FilterDependsOnInputsOnly ==
    last[1] = "filter_jobs" => Results = FirstFilter(loaded, last[2], last[3])

\* C7: a filter has just kept two records of different scores, after an
\* earlier filter, in an ascending sort state, with an application recorded
\* and a status filter set.
C7_Witness ==
    /\ last[1] = "filter_jobs"
    /\ Len(job_functions_history) >= 2
    /\ ~sort_reverse
    /\ applications_data # <<>>
    /\ application_filter # "all"
    /\ \E k \in 1..Len(Results) :
           k < Len(Results) /\ FLess(ScoreOf(k + 1), ScoreOf(k))

\* C8: jobs_data holds the records that were loaded, with their fields and
\* values, in their order.
C8_CorpusNeverMutated == Deref(heap, jobs_data) = loaded

\* C8: the results were just sorted by the applied column, with an
\* application recorded, over a loaded corpus.
C8_Witness ==
    /\ last = <<"sort_by_column", "applied">>
    /\ jobs_data # <<>>
    /\ applications_data # <<>>
    /\ \E k \in 1..Len(Results) : Get(Results[k], "_applied_status", 0) = 1

\* The records of the jobs files.
SourceRecords == UNION {Range(file) : file \in JobsFiles}

\* C9: every record of the result list is a source record plus the score
\* field and nothing else, and every exported record is a source record.
C9_ResultIsSourcePlusScore ==
    /\ \A k \in 1..Len(Results) :
           /\ "_similarity_score" \in DOMAIN Results[k]
           /\ Pop(Results[k], "_similarity_score") \in SourceRecords
    /\ \A i \in 1..Len(export_data) : export_data[i] \in SourceRecords

(***************************************************************************)
(* Properties of matches_job_function                                      *)
(***************************************************************************)

Returned == "job" \in DOMAIN call /\ call.result # <<>>

\* The positions of the query tokens longer than 3 characters.
LongTokens(job_function) ==
    {i \in 1..Len(FindAll(Lower(job_function))) :
         Len(FindAll(Lower(job_function))[i]) > 3}

\* The long query tokens that occur in the case-folded title and description.
FoundTokens(job, job_function) ==
    {i \in LongTokens(job_function) :
         Contains(Lower(Get(job, "title", <<>>) \o <<" ">>
                        \o Get(job, "descriptionText", <<>>)),
                  FindAll(Lower(job_function))[i])}

\* C11: the keyword coverage is the number of query tokens longer than 3
\* characters found in title+description divided by the number of query
\* tokens longer than 3 characters, and 0 when no token is that long.
C11_CoverageOverLongTokens ==
    Returned =>
        keyword_score(call.job, call.job_function) =
            IF LongTokens(call.job_function) = {} THEN FZero
            ELSE Frac(Cardinality(FoundTokens(call.job, call.job_function)),
                      Cardinality(LongTokens(call.job_function)))

(***************************************************************************)
(* Properties of the combined score                                        *)
(***************************************************************************)

\* The five weighted channel values of the call.
CallScores == WeightedScores(call.job, call.job_function)

FOne == Frac(1, 1)

\* C12, as stated: a combined score above 1.0 comes with a title channel
\* above 1.0 or a job function channel above 1.0.
C12_AboveOneOnlyByTitleOrFunction ==
    (Returned /\ FLess(FOne, call.result[2])) =>
        FLess(FOne, CallScores[1]) \/ FLess(FOne, CallScores[3])

\* C12, amended: a combined score above 1.0 comes with a title channel, a
\* job function channel or a keyword channel above 1.0; the description and
\* industries channels never exceed 1.0.
C12_AboveOneOnlyByTitleFunctionOrKeyword ==
    Returned =>
        /\ FLess(FOne, call.result[2]) =>
               \/ FLess(FOne, CallScores[1])
               \/ FLess(FOne, CallScores[3])
               \/ FLess(FOne, CallScores[5])
        /\ FLeq(CallScores[2], FOne)
        /\ FLeq(CallScores[4], FOne)

\* C12: a call has returned a score above 1.0 that only the keyword channel
\* reaches.
C12_Witness ==
    /\ Returned
    /\ FLess(FOne, call.result[2])
    /\ FLess(FOne, CallScores[5])
    /\ FLeq(CallScores[1], FOne)
    /\ FLeq(CallScores[3], FOne)

(***************************************************************************)
(* Properties of calculate_similarity                                      *)
(***************************************************************************)

\* The call of calculate_similarity has returned.
SimilarityReturned == "text1" \in DOMAIN call /\ call.result # <<>>

\* Either case-folded text of the call is a substring of the other.
OneContainsOther ==
    \/ Contains(Lower(call.text1), Lower(call.text2))
    \/ Contains(Lower(call.text2), Lower(call.text1))

\* The sets of unique lowercase word tokens of the two texts of the call.
Tokens1 == Range(FindAll(Lower(call.text1)))

Tokens2 == Range(FindAll(Lower(call.text2)))

\* C13: calculate_similarity returns a value in the closed interval [0, 1].
C13_SimilarityInUnitInterval ==
    SimilarityReturned => FLeq(Frac(0, 1), call.result) /\ FLeq(call.result, FOne)

\* C13: a call has returned from the character fallback with a value strictly
\* between 0 and 1.
C13_Witness ==
    /\ SimilarityReturned
    /\ call.text1 # <<>> /\ call.text2 # <<>>
    /\ ~OneContainsOther
    /\ Tokens1 \cap Tokens2 = {}
    /\ FLess(Frac(0, 1), call.result)
    /\ FLess(call.result, FOne)

\* C14: for non-empty texts of which one case-folded contains the other,
\* calculate_similarity returns exactly 0.8.
C14_SubstringScoresFourFifths ==
    (SimilarityReturned /\ call.text1 # <<>> /\ call.text2 # <<>> /\ OneContainsOther)
        => call.result = <<4, 5>>

\* C14: the call on 'Senior Electrical Engineer' and 'electrical engineer' has
\* returned.
C14_Witness ==
    /\ SimilarityReturned
    /\ Len(call.text1) = 26
    /\ Len(call.text2) = 19
    /\ OneContainsOther
    /\ FLeq(<<4, 5>>, call.result)

\* C15: for non-empty texts of which neither contains the other and whose
\* token sets intersect, calculate_similarity returns the size of the
\* intersection over the size of the larger token set.
C15_TokenOverlapOverLargerSet ==
    (/\ SimilarityReturned
     /\ call.text1 # <<>> /\ call.text2 # <<>>
     /\ ~OneContainsOther
     /\ Tokens1 \cap Tokens2 # {})
        => call.result =
               Frac(Cardinality(Tokens1 \cap Tokens2),
                    IF Cardinality(Tokens1) >= Cardinality(Tokens2)
                    THEN Cardinality(Tokens1) ELSE Cardinality(Tokens2))

\* C15: a call has returned an overlap of one token out of two, the other
\* text having one token.
C15_Witness ==
    /\ SimilarityReturned
    /\ ~OneContainsOther
    /\ Cardinality(Tokens1 \cap Tokens2) = 1
    /\ Cardinality(Tokens1) = 2
    /\ Cardinality(Tokens2) = 1
    /\ call.result = <<1, 2>>

\* C16: calculate_similarity returns 0.0 when either text is empty, although
\* the empty text is a substring of the other.
C16_EmptyScoresZero ==
    (SimilarityReturned /\ (call.text1 = <<>> \/ call.text2 = <<>>))
        => call.result = <<0, 1>>

\* C16: a call with an empty and a non-empty text has returned.
C16_Witness ==
    /\ SimilarityReturned
    /\ call.text1 = <<>>
    /\ call.text2 # <<>>
    /\ OneContainsOther

\* C17: calculate_similarity(a, b) = calculate_similarity(b, a).
C17_SimilaritySymmetric ==
    SimilarityReturned => call.result = calculate_similarity(call.text2, call.text1)

(***************************************************************************)
(* Properties of matches_job_function                                      *)
(***************************************************************************)

\* C18: when the non-empty query is, case-folded, a substring of the title,
\* matches_job_function returns a score of at least 1.6 and a match for
\* every threshold up to 1.6.
C18_QueryInTitleScoresAtLeast ==
    (/\ Returned
     /\ call.job_function # <<>>
     /\ "title" \in DOMAIN call.job
     /\ Contains(Lower(call.job.title), Lower(call.job_function)))
        => /\ FLeq(<<8, 5>>, call.result[2])
           /\ FLeq(call.threshold, <<8, 5>>) => call.result[1]

\* C18: the call on the record with title 'Electrical Engineer II' and job
\* function 'Engineering', query 'Electrical Engineer' and threshold 0.3 has
\* returned a match.
C18_Witness ==
    /\ Returned
    /\ call.job = ExampleJob
    /\ Len(call.job_function) = 19
    /\ call.threshold = DefaultThreshold
    /\ call.result[1]
    /\ FLeq(<<8, 5>>, call.result[2])

\* The four text fields matches_job_function reads, in the order of the
\* channels.
TextFields == <<"title", "descriptionText", "jobFunction", "industries">>

\* The record with every absent text field set to the empty string.
WithEmptyFields(job) ==
    [k \in DOMAIN job \cup Range(TextFields) |-> IF k \in DOMAIN job THEN job[k] ELSE <<>>]

\* C19: for a record lacking any of the four text fields matches_job_function
\* returns what it returns for the record with those fields empty, each
\* absent field contributing 0; and after sort_by_column on a column that
\* some records lack, the results are sorted with the absent values read as
\* the empty string.
C19_MissingFieldsReadAsEmpty ==
    /\ Returned =>
           /\ call.result[1] \in BOOLEAN
           /\ call.result = matches_job_function(WithEmptyFields(call.job),
                                                 call.job_function, call.threshold)
           /\ \A i \in 1..4 :
                  TextFields[i] \notin DOMAIN call.job => CallScores[i] = <<0, 1>>
    /\ last[1] = "sort_by_column" =>
           /\ Len(Results) = Len(filtered_jobs)
           /\ SortedBy(Results, sort_column, sort_reverse)

\* C19: a call on a record with a description but without title, job
\* function and industries has returned a score above 0.
C19_Witness ==
    /\ Returned
    /\ DOMAIN call.job = {"descriptionText"}
    /\ FLess(<<0, 1>>, call.result[2])

(***************************************************************************)
(* Properties of _estimate_experience                                      *)
(***************************************************************************)

\* The call of _estimate_experience has returned.
ExperienceReturned == "resume_text" \in DOMAIN call /\ call.result # <<>>

\* The numbers N of the explicit phrases of a case-folded text, as written.
ExplicitMentions(text_lower) ==
    ReFindAll(1, text_lower) \o ReFindAll(2, text_lower) \o ReFindAll(3, text_lower)

\* The largest of the numbers written in a non-empty sequence of mentions.
LargestMention(mentions) ==
    CHOOSE n \in {IntOf(mentions[i]) : i \in DOMAIN mentions} :
        \A i \in DOMAIN mentions : IntOf(mentions[i]) <= n

\* The year ranges of a case-folded text, each distinct range once.
DistinctRanges(text_lower) == Range(ReFindAll(4, text_lower))

\* The estimate from a number of ranges: two years each, at most twenty.
RangeEstimate(count) == IF 2 * count <= 20 THEN 2 * count ELSE 20

\* The estimate a case-folded text has when each distinct range counts once.
StatedEstimate(mentions, text_lower) ==
    IF mentions # <<>> THEN LargestMention(mentions)
    ELSE RangeEstimate(Cardinality(DistinctRanges(text_lower)))

\* C20: _estimate_experience returns the largest N of the explicit phrases
\* '<N> years of experience', 'experience: <N> years' and '<N> years in';
\* when the text has no such phrase it returns twice the number of distinct
\* year ranges of the text, each distinct range counted once, capped at 20,
\* which is 0 when there is no range.
C20_LargestMentionElseDistinctRanges ==
    ExperienceReturned =>
        call.result[1] = StatedEstimate(ExplicitMentions(Lower(call.resume_text)),
                                        Lower(call.resume_text))

\* The two examples of the estimate, which the code meets: the phrase
\* '5+ years of experience in software development' gives 5, and the two
\* ranges '2019-2021' and '2021 - present' alone give 4.
C20_Examples ==
    ExperienceReturned =>
        /\ call.resume_text = Fragments[1] => call.result = <<5>>
        /\ call.resume_text = Fragments[5] \o Fragments[6] => call.result = <<4>>

\* A returned call on a text that repeats one year range and has no
\* explicit phrase.
C20_RepeatedRange ==
    /\ ExperienceReturned
    /\ ExplicitMentions(Lower(call.resume_text)) = <<>>
    /\ Cardinality(DistinctRanges(Lower(call.resume_text)))
           < Len(ReFindAll(4, Lower(call.resume_text)))

(***************************************************************************)
(* Properties of _suggest_job_roles                                        *)
(***************************************************************************)

\* The call of _suggest_job_roles has returned.
RolesReturned == "skills" \in DOMAIN call /\ call.result # <<>>

\* The ratio of the role of index i for a skill set: the share of the
\* role's required skills that are among the skills.
RoleRatio(i, skills) ==
    Frac(Cardinality(role_mappings[i].required_skills \cap SkillsLower(skills)),
         Cardinality(role_mappings[i].required_skills))

\* The index of a role name in role_mappings.
RoleIndex(role) == CHOOSE i \in DOMAIN role_mappings : role_mappings[i].role = role

\* The roles, by index, whose ratio is strictly greater than 0.2.
Qualifying(skills) ==
    {i \in DOMAIN role_mappings : FLess(Frac(1, 5), RoleRatio(i, skills))}

\* The suggestions when the test "> 0.2" is applied to the whole sorted list
\* and the cap of 5 after it.
CapAfterTest(skills) == Slice(RolesAbove(sorted_roles(SkillsLower(skills)), 1), 5)

\* Whether roles, a list of role names, is what the suggestions for skills
\* have to be.
IsSuggestionList(roles, skills) ==
    /\ \A k \in DOMAIN roles : RoleIndex(roles[k]) \in Qualifying(skills)
    /\ \A k, l \in DOMAIN roles : k # l => roles[k] # roles[l]
    /\ \A k, l \in DOMAIN roles :
           k < l => FLeq(RoleRatio(RoleIndex(roles[l]), skills),
                         RoleRatio(RoleIndex(roles[k]), skills))
    /\ Len(roles) = IF Cardinality(Qualifying(skills)) < 5
                    THEN Cardinality(Qualifying(skills)) ELSE 5
    /\ \A i \in Qualifying(skills) :
           (\A k \in DOMAIN roles : roles[k] # role_mappings[i].role)
               => \A k \in DOMAIN roles :
                      FLeq(RoleRatio(i, skills), RoleRatio(RoleIndex(roles[k]), skills))
    /\ roles = CapAfterTest(skills)

\* C21: _suggest_job_roles returns roles whose ratio of matched required
\* skills is strictly greater than 0.2 and no other, without repetition, in
\* descending order of the ratio; it returns all of them when at most 5
\* qualify and otherwise 5 of them that no left-out role exceeds; and the
\* list is the one obtained by testing "> 0.2" first and capping after.
C21_SuggestionsAreTopQualifyingRoles ==
    RolesReturned => IsSuggestionList(call.result[1], call.skills)

\* A returned call on a skill set for which more than 5 roles qualify.
C21_Witness ==
    /\ RolesReturned
    /\ Cardinality(Qualifying(call.skills)) > 5
    /\ Len(call.result[1]) = 5

(***************************************************************************)
(* Properties of _extract_skills                                           *)
(***************************************************************************)

\* The call of _extract_skills has returned.
SkillsReturned == "skill_text" \in DOMAIN call /\ call.result # <<>>

\* The texts an entry stands for when each of its hyphens may be a hyphen, a
\* white space character or nothing.
RECURSIVE HyphenForms(_)
HyphenForms(skill) ==
    IF skill = <<>> THEN {<<>>}
    ELSE IF Head(skill) = "-"
         THEN {h \o rest : h \in {<<"-">>, <<" ">>, <<"\n">>, <<>>},
                           rest \in HyphenForms(Tail(skill))}
         ELSE {<<Head(skill)>> \o rest : rest \in HyphenForms(Tail(skill))}

\* The text form stands in s as a whole word: somewhere in s with no word
\* character next to it on either side.
OccursAsWord(form, s) ==
    \E i \in 1..Len(s) :
        /\ LitAt(s, i, form)
        /\ ~WordAt(s, i - 1)
        /\ ~WordAt(s, i + Len(form))

\* The entries of the vocabulary that occur in a text as a whole word,
\* whatever the case of the text.
WholeWordSkills(text) ==
    {skill \in SKILLS_DATABASE :
        \E form \in HyphenForms(skill) : OccursAsWord(form, Lower(text))}

\* C23: _extract_skills collects an entry of the vocabulary exactly when the
\* entry occurs in the text, case ignored, as a whole word, a hyphen of the
\* entry standing for a hyphen, a white space character or nothing.
C23_SkillsAreWholeWordEntries ==
    SkillsReturned => call.result[1] = WholeWordSkills(call.skill_text)

\* The example of the extraction, which the code meets: 'Experienced with
\* Python, React and Docker' yields exactly python, react and docker.
C23_Example ==
    SkillsReturned /\ call.skill_text = Pieces[1] =>
        call.result[1] = { <<"p", "y", "t", "h", "o", "n">>,
                           <<"r", "e", "a", "c", "t">>,
                           <<"d", "o", "c", "k", "e", "r">> }

\* The entries without a hyphen that begin and end with a word character.
PlainEntries ==
    {skill \in SKILLS_DATABASE :
        /\ \A k \in DOMAIN skill : skill[k] # "-"
        /\ IsWordChar(skill[1])
        /\ IsWordChar(skill[Len(skill)])}

\* The entries without a hyphen that begin and end with a word character
\* are collected exactly when they occur as a whole word.
C23_PlainEntries ==
    SkillsReturned =>
        call.result[1] \cap PlainEntries
            = WholeWordSkills(call.skill_text) \cap PlainEntries

(***************************************************************************)
(* Properties of the parser: parse_resume, calculate_job_match_score       *)
(***************************************************************************)

\* The state is one of a parser.
ParserCall == "parser" \in DOMAIN call

\* calculate_job_match_score has returned; its arguments are call.op[2] and
\* call.op[3], its value call.result[1].
ScoreReturned == ParserCall /\ call.op[1] = "calculate_job_match_score"

\* parse_resume has returned or raised; the file is call.op[2].
ParseDone == ParserCall /\ call.op[1] = "parse_resume"

\* The share of the job's skills that are extracted skills, 0 when no skill
\* is found in the job text.
SkillShare(skills, jskills) ==
    IF jskills = {} THEN FZero
    ELSE Frac(Cardinality(skills \cap jskills), Cardinality(jskills))

\* The share of the job's words that are resume words, at most 1; 0 when the
\* job text has no word.
WordShare(resume_words, job_words) ==
    IF job_words = {} THEN FZero
    ELSE FMin1(Frac(Cardinality(resume_words \cap job_words), Cardinality(job_words)))

\* 0.5 * skill share + 0.3 * word share + 0.2 * title score, at most 1.
WeightedSum(skill_share, word_share, title) ==
    FMin1(FAdd(FAdd(FMul(Frac(1, 2), skill_share), FMul(Frac(3, 10), word_share)),
               FMul(Frac(1, 5), title)))

\* The score of parser p for a job with the title score title, as the sum
\* of the weighted shares.
StatedScore(p, job_text, title) ==
    The({WeightedSum(skill_share, word_share, title) :
            skill_share \in {SkillShare(p.skills, job_skills(job_text))},
            word_share \in {WordShare(Range(Split(Lower(p.resume_text))),
                                      Range(Split(job_text)))}})

\* The values the score of the last call may have: the weighted sum with
\* the title bonus and the one without it.
StatedScores ==
    {StatedScore(call.parser, job_text_lower(call.op[2], call.op[3]), title) :
        title \in {FZero, Frac(4, 5)}}

\* C22: calculate_job_match_score returns 0.5 * the share of the job's
\* skills among the extracted skills (0 when the job text holds no skill)
\* + 0.3 * the share of the job's words among the resume words (at most 1)
\* + 0.2 * (0.8 with the title bonus, else 0), at most 1.0, and the value
\* lies in [0, 1], in every state of the parser.
C22_ScoreIsWeightedSum ==
    ScoreReturned =>
        /\ call.result[1] \in StatedScores
        /\ FLeq(FZero, call.result[1])
        /\ FLeq(call.result[1], Frac(1, 1))

\* The score is the weighted sum in the states of a parser whose text is
\* the one its features were extracted from, and it always lies in [0, 1].
C22_ScoreOfParsedText ==
    ScoreReturned =>
        /\ call.parser \in {NewParser, Extracted(call.parser.resume_text)}
               => call.result[1] \in StatedScores
        /\ FLeq(FZero, call.result[1])
        /\ FLeq(call.result[1], Frac(1, 1))

\* A score was asked of a parser with skills and no text.
C22_SkillsWithoutText ==
    /\ ScoreReturned
    /\ call.parser.resume_text = <<>>
    /\ call.parser.skills # {}

\* The file of the last parse_resume is a readable file of a supported
\* format without any text.
EmptyResumeParsed ==
    /\ ParseDone
    /\ call.op[2].format \in {"pdf", "docx", "txt"}
    /\ call.op[2].readable
    /\ call.op[2].text = <<>>

\* C24: the extraction of an empty resume text does not fail; it yields the
\* profile with no skill, 0 years of experience, no job title, no education
\* line and no suggested role.
C24_EmptyTextGivesEmptyProfile ==
    EmptyResumeParsed =>
        /\ ~call.raised
        /\ call.parser = NewParser

\* Each extractor alone returns the empty value on the empty text.
C24_ExtractorsOnEmptyText ==
    ParserCall => Extracted(<<>>) = NewParser

\* The word is one of the words of the title.
WordOfTitle(word, title_lower) == word \in Range(Split(title_lower))

\* Some extracted title has a word that is a word of the job title.
SharesWord(job_titles, title_lower) ==
    \E k \in DOMAIN job_titles :
        \E word \in Range(Split(job_titles[k])) : WordOfTitle(word, title_lower)

\* The last score is the weighted sum with the title bonus.
BonusAdded ==
    call.result[1] = StatedScore(call.parser, job_text_lower(call.op[2], call.op[3]),
                                 Frac(4, 5))

\* C25: for a parser with a resume text, calculate_job_match_score adds the
\* title bonus 0.8 * 0.2 exactly when some extracted title shares a whole
\* word with the lower-cased job title; a word that only occurs inside a
\* longer word of the job title earns no bonus.
C25_BonusIffSharedWord ==
    ScoreReturned /\ call.parser.resume_text # <<>> =>
        (BonusAdded <=> SharesWord(call.parser.job_titles, Lower(call.op[3])))

\* A shared whole word always earns the bonus.
C25_SharedWordEarnsBonus ==
    ScoreReturned /\ call.parser.resume_text # <<>> =>
        (SharesWord(call.parser.job_titles, Lower(call.op[3])) => BonusAdded)

\* C29: a parse_resume call that raises leaves the stored profile
\* (resume_text, skills, experience_years, job_titles, education,
\* suggested_roles) exactly as it was before the call.
C29_FailedParseKeepsProfile ==
    [][ParserCall /\ call'.op[1] = "parse_resume" /\ call'.raised
            => call'.parser = call.parser]_vars

\* The calls that raise without having read any text leave the profile as
\* it was: an unsupported format, a file that cannot be read, a PDF without
\* text.
C29_EarlyFailureKeepsProfile ==
    [][/\ ParserCall
       /\ call'.op[1] = "parse_resume"
       /\ call'.raised
       /\ ~(call'.op[2].format = "txt" /\ call'.op[2].readable)
       => call'.parser = call.parser]_vars

(***************************************************************************)
(* Properties of the table                                                 *)
(***************************************************************************)

\* int(tags[0]): the index a row carries.
TagIndex(row) == StrToInt(row.tags[1])

\* C26: in every state of the application every row of the table carries
\* an index i with 0 <= i < len(filtered_jobs), and the row shows the values
\* of filtered_jobs[i]; so the handlers that read filtered_jobs[int(tags[0])]
\* of a row never index out of range and get the displayed job.
C26_RowTagsIndexDisplayedJob ==
    \A r \in 1..Len(tree) :
        /\ TagIndex(tree[r]) \in 0..(Len(filtered_jobs) - 1)
        /\ tree[r] = Row(TagIndex(tree[r]), heap[filtered_jobs[TagIndex(tree[r]) + 1]],
                         applications_data)

\* A table whose only row stands for the second job of the result list.
C26_Witness ==
    /\ Len(tree) = 1
    /\ Len(filtered_jobs) = 2
    /\ TagIndex(tree[1]) = 1

\* Whether a job with this applied status agrees with the status filter.
Agrees(af, applied) ==
    CASE af = "all" -> TRUE
      [] af = "applied" -> applied
      [] af = "not_applied" -> ~applied

\* The places in the result list of the records that agree with the filter.
AgreeingPlaces ==
    {i \in 1..Len(filtered_jobs) :
        Agrees(application_filter,
               Get(heap[filtered_jobs[i]], "id", <<>>) \in DOMAIN applications_data)}

\* The r-th of them, counted from 1.
AgreeingPlace(r) ==
    CHOOSE i \in AgreeingPlaces : Cardinality({k \in AgreeingPlaces : k < i}) = r - 1

\* The table shows the agreeing records, each once, in the order of the
\* result list.
ShowsAgreeingRecords ==
    /\ Len(tree) = Cardinality(AgreeingPlaces)
    /\ \A r \in 1..Len(tree) :
           tree[r] = Row(AgreeingPlace(r) - 1, heap[filtered_jobs[AgreeingPlace(r)]],
                         applications_data)

\* C27: the table shows, in the order of the result list, exactly the
\* records of filtered_jobs whose applied status agrees with
\* application_filter, and a change of the status filter leaves
\* filtered_jobs, the records with their scores, sort_column and
\* sort_reverse as they were.
C27_TableShowsAgreeingRecords ==
    /\ []ShowsAgreeingRecords
    /\ [][(\E v \in Range(filter_display) : on_filter_changed(v))
              => UNCHANGED <<filtered_jobs, heap, sort_column, sort_reverse>>]_vars

\* The status filter hides a record of the result list.
C27_Witness ==
    /\ application_filter = "applied"
    /\ tree # <<>>
    /\ Len(tree) < Len(filtered_jobs)

(***************************************************************************)
(* Properties of sort_by_column and of the query history                   *)
(***************************************************************************)

\* The step is a click on a column heading.
SortStep == \E col \in Columns : sort_by_column(col)

\* The one-to-one maps of the places 1..n onto themselves.
Reorderings(n) ==
    {p \in [1..n -> 1..n] : \A i, j \in 1..n : p[i] = p[j] => i = j}

\* after holds the elements of before, each as often, in some order.
IsPermutation(after, before) ==
    /\ Len(after) = Len(before)
    /\ \E p \in Reorderings(Len(before)) :
           \A k \in 1..Len(before) : after[k] = before[p[k]]

\* The records the references of list stand for in the heap h.
RecordsOf(list, h) == [k \in 1..Len(list) |-> h[list[k]]]

\* C28: sort_by_column only reorders: the records of the result list after
\* the call are those before it, in some order, none added, dropped,
\* duplicated or altered; on an empty result list the call changes nothing,
\* the sort key and the direction included.
C28_SortOnlyReorders ==
    [][SortStep =>
          IF filtered_jobs = <<>>
          THEN UNCHANGED <<filtered_jobs, heap, sort_column, sort_reverse, tree>>
          ELSE IsPermutation(RecordsOf(filtered_jobs', heap'),
                             RecordsOf(filtered_jobs, heap))]_vars

\* The record without the field sort_by_column writes for the column
\* "applied".
WithoutAppliedStatus(job) == Pop(job, "_applied_status")

\* The objects of the result list are reordered, none added, dropped or
\* duplicated, and each keeps its fields (the score among them) but for
\* _applied_status; on an empty list nothing changes.
C28_SortPermutesObjects ==
    [][SortStep =>
          IF filtered_jobs = <<>>
          THEN UNCHANGED <<filtered_jobs, heap, sort_column, sort_reverse, tree>>
          ELSE /\ IsPermutation(filtered_jobs', filtered_jobs)
               /\ \A k \in 1..Len(filtered_jobs) :
                      /\ WithoutAppliedStatus(heap'[filtered_jobs[k]]) =
                             WithoutAppliedStatus(heap[filtered_jobs[k]])
                      /\ Get(heap'[filtered_jobs[k]], "_similarity_score", FZero) =
                             Get(heap[filtered_jobs[k]], "_similarity_score", FZero)]_vars

\* No entry occurs twice in the list.
DuplicateFree(list) ==
    \A i, j \in 1..Len(list) : list[i] = list[j] => i = j

\* list is the beginning of longer.
IsPrefix(list, longer) ==
    /\ Len(list) <= Len(longer)
    /\ SubSeq(longer, 1, Len(list)) = list

\* The filter is rejected: no jobs are loaded or the query is blank.
Rejected(query) == jobs_data = <<>> \/ Strip(query) = <<>>

\* The history after a filter that is not rejected.
StatedHistory(history, job_function) ==
    IF \E k \in 1..Len(history) : history[k] = job_function THEN history
    ELSE history \o <<job_function>>

\* C30: the query history never holds an entry twice, and every step keeps
\* its entries in place; filter_jobs appends the stripped query exactly
\* when jobs are loaded, the stripped query is not empty and it is not in
\* the history yet, whether or not a job matches; nothing else changes the
\* history; and a rejected filter (no jobs loaded or a blank query) leaves
\* the history, the result list and the sort state as they were.
C30_HistoryAppendOnlyDuplicateFree ==
    /\ []DuplicateFree(job_functions_history)
    /\ [][/\ IsPrefix(job_functions_history, job_functions_history')
          /\ last'[1] = "filter_jobs" =>
                 /\ jobs_data # <<>> /\ last'[2] # <<>>
                 /\ job_functions_history' =
                        StatedHistory(job_functions_history, last'[2])
          /\ job_functions_history' # job_functions_history =>
                 last'[1] = "filter_jobs"
          /\ \A query \in HistoryQueries, threshold \in Thresholds :
                 Rejected(query) /\ filter_jobs(query, threshold) =>
                     UNCHANGED <<job_functions_history, filtered_jobs, heap, tree,
                                 sort_column, sort_reverse>>]_vars

\* A filter that matched no job has appended its query behind an earlier
\* one, and a later filter with the earlier query has left the history as
\* it was.
C30_Witness ==
    /\ Len(job_functions_history) = 2
    /\ job_functions_history[2] = NoMatchQuery
    /\ last[1] = "filter_jobs"
    /\ last[2] = job_functions_history[1]

====
